---- MODULE Spec2Model ----
(***************************************************************************)
(* Hermes TV break production pipeline: the break builder                  *)
(* (core/services/break_builder.py) with the break queue, host rotation,   *)
(* degradation ladder, content filter and playout client it drives.        *)
(*                                                                         *)
(* Every build is one asyncio task running prepare_break.  The event loop  *)
(* is cooperative, so a build is a sequence of atomic blocks separated by  *)
(* awaits; the blocks of different builds interleave freely.               *)
(***************************************************************************)
EXTENDS Integers, Sequences, FiniteSets, TLC

\* Number of prepare_break tasks started in one behaviour.
MaxBuilds == 2

Builds == 1..MaxBuilds
\* break ids: the timestamp the build read when it started
Ids == 1..MaxBuilds

None == "None"
NoRow == [status |-> "ABSENT"]

HostIds == {"host_a", "host_b"}

\* The hosts tables the model starts from: both enabled with host_b the
\* breaking host; host_b disabled with host_a the breaking host; no host
\* enabled at all.
HostConfigs ==
    { [host_a |-> [enabled |-> TRUE, is_breaking_host |-> FALSE],
       host_b |-> [enabled |-> TRUE, is_breaking_host |-> TRUE]],
      [host_a |-> [enabled |-> TRUE, is_breaking_host |-> TRUE],
       host_b |-> [enabled |-> FALSE, is_breaking_host |-> FALSE]],
      [host_a |-> [enabled |-> FALSE, is_breaking_host |-> TRUE],
       host_b |-> [enabled |-> FALSE, is_breaking_host |-> FALSE]] }

\* settings rows read by prepare_break (defaults of the settings table)
settings ==
    [break_min_words |-> 15, break_max_words |-> 100, break_max_chars |-> 600,
     breaking_min_words |-> 10, breaking_max_words |-> 50]

\* s_max_w = max(s_max_w, 180) when market data is present
BITCOIN_MAX_WORDS == 180

-----------------------------------------------------------------------------
(* Texts.  A text is named by an id and Text gives its words, the result   *)
(* of str.split().                                                         *)

Rep(ws, n) == [i \in 1..(n * Len(ws)) |-> ws[((i - 1) % Len(ws)) + 1]]

\* what the LM writer can return ("" is the absent/empty answer)
LLMOutputs == {"", "s_ok", "s_advice"}

TemplateIds == {"t_long", "t_brief"}

\* template_text of the stored fallback templates
TemplateText(t) ==
    IF t = "t_long"
    THEN <<"the", "weather", "in", "{city1}", "is", "{temp1}", "degrees",
           "and", "{condition1}", "while", "{city2}", "is", "{temp2}",
           "degrees", "and", "{condition2}", "stay", "tuned">>
    ELSE <<"{city1}", "{temp1}", "{condition1}",
           "{city2}", "{temp2}", "{condition2}">>

\* the first two weather rows a build fetched
WeatherRows ==
    << [city_label |-> "lima", temp |-> "22", condition |-> "sunny"],
       [city_label |-> "oslo", temp |-> "5", condition |-> "snow"] >>

\* str.format of one template word
FormatWord(w, w1, w2) ==
    CASE w = "{city1}" -> w1.city_label
      [] w = "{temp1}" -> w1.temp
      [] w = "{condition1}" -> w1.condition
      [] w = "{city2}" -> w2.city_label
      [] w = "{temp2}" -> w2.temp
      [] w = "{condition2}" -> w2.condition
      [] OTHER -> w

Format(tpl, w1, w2) == [i \in 1..Len(tpl) |-> FormatWord(tpl[i], w1, w2)]

\* id of the script a template is filled into
FilledId(t) == IF t = "t_long" THEN "f_long" ELSE "f_brief"

\* lines of the dialog script the LM dialog writer returns
DialogLines == {"d_hello", "d_link"}

Text(s) ==
    CASE s = "" -> << >>
      [] s = "s_ok" -> Rep(<<"fine", "weather", "today", "in">>, 4)
      [] s = "s_advice" ->
             <<"buy", "bitcoin", "now">> \o Rep(<<"fine", "weather", "today", "in">>, 4)
      [] s = "f_long" -> Format(TemplateText("t_long"), WeatherRows[1], WeatherRows[2])
      [] s = "f_brief" -> Format(TemplateText("t_brief"), WeatherRows[1], WeatherRows[2])
      [] s = "d_hello" -> <<"hello", "there">>
      [] s = "d_link" -> <<"go", "to", "example.com", "now">>

\* len() of one word
WordChars(w) ==
    CASE w \in {"5"} -> 1
      [] w \in {"22", "is", "in", "go", "to"} -> 2
      [] w \in {"the", "and", "buy", "now"} -> 3
      [] w \in {"fine", "lima", "oslo", "snow", "stay"} -> 4
      [] w \in {"today", "sunny", "while", "tuned", "hello", "there"} -> 5
      [] w \in {"weather", "degrees", "bitcoin"} -> 7
      [] w = "example.com" -> 11
      [] OTHER -> 6

RECURSIVE SumChars(_)
SumChars(ws) == IF ws = << >> THEN 0 ELSE WordChars(Head(ws)) + SumChars(Tail(ws))

\* len(script) of the stripped, single-spaced text
CharCount(ws) == IF ws = << >> THEN 0 ELSE SumChars(ws) + Len(ws) - 1

BLOCKED_PHRASES ==
    << <<"buy">>, <<"sell">>, <<"invest">>, <<"investing">>, <<"price", "target">>,
       <<"prediction">>, <<"click">>, <<"subscribe">>, <<"go", "to">>,
       <<"check", "out">>, <<"breaking", "news">> >>

BLOCKED_SUBSTRINGS == <<"http", "www.", ".com", ".org", ".net">>

\* sub in word
Contains(w, sub) == w = "example.com" /\ sub = ".com"

\* re.search(r'\b' + phrase + r'\b', lower)
PhraseAt(ws, p, i) ==
    /\ i + Len(p) - 1 <= Len(ws)
    /\ \A k \in 1..Len(p) : ws[i + k - 1] = p[k]

HasPhrase(ws, p) == \E i \in 1..Len(ws) : PhraseAt(ws, p, i)

validate(script, is_brk, min_words, max_words, max_chars) ==
    LET words == Text(script)
        phrases == SelectSeq(BLOCKED_PHRASES,
                             LAMBDA p : ~(is_brk /\ p = <<"breaking", "news">>))
    IN  IF words = << >> THEN [ok |-> FALSE, reason |-> "empty script"]
        ELSE IF Len(words) < min_words THEN [ok |-> FALSE, reason |-> "too short"]
        ELSE IF Len(words) > max_words THEN [ok |-> FALSE, reason |-> "too long"]
        ELSE IF CharCount(words) > max_chars THEN [ok |-> FALSE, reason |-> "exceeds chars"]
        ELSE IF \E i \in 1..Len(phrases) : HasPhrase(words, phrases[i])
             THEN [ok |-> FALSE, reason |-> "blocked word"]
        ELSE IF \E i \in 1..Len(BLOCKED_SUBSTRINGS) :
                   \E k \in 1..Len(words) : Contains(words[k], BLOCKED_SUBSTRINGS[i])
             THEN [ok |-> FALSE, reason |-> "blocked pattern"]
        ELSE [ok |-> TRUE, reason |-> "ok"]

-----------------------------------------------------------------------------
(* State *)

VARIABLES
    hosts,          \* hosts table: id -> [enabled, is_breaking_host]
    stingExists,    \* STINGS_DIR/station_id.mp3 is on disk
    templates,      \* fallback_templates: template id -> use_count
    host_rotation,  \* host_rotation row 1: [last_host_id, break_count]
    break_queue,    \* break_queue table: break id -> row
    events_log,     \* break_ready/break_failed rows of events_log, per break id
    sent,           \* commands a build wrote to the playout socket, per break id
    tick,           \* the clock prepare_break derives break_id from
    pc,             \* position of each prepare_break task
    is_breaking,    \* locals of each task
    break_id,
    host,
    weather_data,
    script,
    deg_level,
    audio_path,
    spoken,         \* texts the task handed to a speech synthesizer
    accepted        \* texts content_filter.validate accepted in the task

shared == <<hosts, stingExists, templates, host_rotation, break_queue, events_log, sent, tick>>
locals == <<is_breaking, break_id, host, weather_data, script, deg_level,
            audio_path, spoken, accepted>>

\* State of the news pipeline and of the fallback ladder, which the
\* specifications of the builds leave alone and NewsSpec, LadderSpec exercise.
VARIABLES
    news_sources,   \* news_sources table: source id -> [enabled]
    feed_health,    \* feed_health table: source id -> [status, consecutive_failures]
    streak,         \* failed polls of a source since its last successful poll
    feed_entries,   \* titled entries each feed serves: source id -> set of news ids
    cache_news,     \* cache_news table: news id -> row
    now,            \* the clock, in minutes
    run,            \* number of news pipelines started
    news_pc,        \* position of the build that runs the news pipeline
    feed_i,         \* fetch_all_feeds: index of the source polled next
    headlines,      \* headlines of that build
    recent,         \* meta.headline_ids of the READY/PLAYED entries, newest first
    last_used_at,   \* fallback_templates.last_used_at: template id -> time, 0 for NULL
    ladder_result   \* what the last get_fallback_script call returned

news == <<news_sources, feed_health, streak, feed_entries, cache_news, run, news_pc,
          feed_i, headlines, recent>>
ladder == <<last_used_at, ladder_result>>

\* State of overlapping poll cycles (fetch_all_feeds called by several builds),
\* which PollSpec exercises.
VARIABLES
    poll_pc,        \* position of each fetch_all_feeds call
    poll_list,      \* fetch_all_feeds: sources (line 39) not yet polled, first is current
    poll_todo,      \* _fetch_feed: entries (line 60) not yet handled
    news_rows,      \* cache_news table: news id -> number of rows with that id
    cycles          \* number of fetch_all_feeds calls started

poll == <<poll_pc, poll_list, poll_todo, news_rows, cycles>>

\* Arguments of a get_top_headlines call, which TopSpec draws.
VARIABLES
    arg_limit,      \* get_top_headlines: limit
    arg_exclude,    \* get_top_headlines: exclude_ids
    tagged          \* prepare_break: ids of the headlines with previously_reported true

top == <<arg_limit, arg_exclude, tagged>>

\* State of the weather and market caches and of the calls that read them,
\* which CacheSpec exercises.
VARIABLES
    cache_rows,     \* cache_weather row of a city and cache_bitcoin row 'btc': key -> row
    reader          \* each read: [pc, key, row (the row it selected), fetched, result]

cachev == <<cache_rows, reader>>

\* Local state of get_next_host between its awaits, which RotSpec exercises.
VARIABLE rot_break_count   \* get_next_host: break_count of each task

\* State of the break scheduler, which SchedSpec exercises.
VARIABLES
    _running,       \* BreakScheduler._running
    _task,          \* BreakScheduler._task: a task of _loop, 0 for None
    loop,           \* each task of _loop: [pc, first_run, cancel, sleeps, attempts]
    awaited,        \* tasks that a stop() call is awaiting
    quiet_mode,     \* settings row quiet_mode
    fired,          \* number of builds the scheduler has started
    running_jobs    \* number of those builds not yet finished

sched == <<_running, _task, loop, awaited, quiet_mode, fired, running_jobs>>

\* State of the playout socket client, which LiqSpec exercises.
VARIABLES
    _lock,          \* _lock: the caller inside `async with _lock`, 0 when free
    _writer,        \* _writer and _reader: number of the connection, 0 for None
    stream,         \* the connection opened last: [id, buf, pending, eof, closing]
    call,           \* each caller of send_command: [pc, cmd, lines, result]
    shutdown,       \* close() of the lifespan: "no", "wait_closed", "done"
    cmds,           \* number of commands written so far
    conns           \* number of connections opened so far

liq == <<_lock, _writer, stream, call, shutdown, cmds, conns>>

\* One call of a function that keeps no state between calls (speech
\* synthesis, the validator, the visual director, the lip-sync smoothing).
VARIABLES
    args,           \* the function called, its arguments and what it reads
    ret             \* [done |-> FALSE], or [done |-> TRUE, value |-> result]

fn == <<args, ret>>

\* the components after the host rotation
later == <<sched, liq, fn>>
ext == <<poll, top, cachev, rot_break_count, later>>
side == <<news, now, ladder, ext>>
builds == <<shared, pc, locals>>
vars == <<shared, pc, locals, side>>

STING == "stings/station_id.mp3"
MP3 == "breaks/brk.mp3"
COMBINED == "dialog/brk_combined.mp3"

\* pcs at which a task is inside prepare_break
Running == {"host", "create", "build", "fallback", "filter", "tts", "commit",
            "inject", "sting", "exc"}

TemplateConfigs ==
    { << >>, [t \in {"t_long"} |-> 0], [t \in {"t_brief"} |-> 0] }

\* host_rotation row 1 as the process finds it: fresh from the migration, or
\* left by an earlier run after one scheduled break voiced by host_b
RotationRows ==
    { [last_host_id |-> None, break_count |-> 0],
      [last_host_id |-> "host_b", break_count |-> 1] }

\* news sources in the order fetch_all_feeds polls them (weight DESC)
Sources == <<"src_a", "src_b">>
SourceIds == {"src_a", "src_b"}

\* ids of the headlines the feeds can serve
NewsIds == {"n1", "n2", "n3"}

\* no cache_news row for an id
NoNews == [present |-> FALSE]

\* tasks that may be inside fetch_all_feeds at the same time
Pollers == {1, 2}

\* a title as feedparser gives it: a sequence of characters, a tag counting as one
Titles ==
    { <<"R", "a">>, <<"<b>", "r", "a", "</b>", " ">>, <<"S", "^G", "u">>, <<"<i>", "</i>">> }

\* _TAG_RE, _CTRL_RE
Removed == {"<b>", "</b>", "<i>", "</i>", "^G"}

\* str.strip
Strip(q) ==
    LET idx == {i \in 1..Len(q) : q[i] # " "}
    IN  IF idx = {} THEN << >>
        ELSE SubSeq(q, CHOOSE i \in idx : \A j \in idx : i <= j,
                       CHOOSE i \in idx : \A j \in idx : i >= j)

_sanitize(text, max_len) ==
    LET kept(c) == c \notin Removed
        t == Strip(SelectSeq(text, kept))
    IN  SubSeq(t, 1, IF Len(t) < max_len THEN Len(t) ELSE max_len)

\* _title_hash: sha256 of title.lower().strip(); the digest is taken to be
\* different for different texts
_title_hash(title) ==
    Strip([i \in 1..Len(title) |->
             IF title[i] = "R" THEN "r" ELSE IF title[i] = "S" THEN "s" ELSE title[i]])

\* news_id = f"{source['id']}_{th}"
news_id(s, title) == <<s, _title_hash(title)>>

\* keys of the caches: a city of cache_weather, the row of cache_bitcoin
CacheKeys == {"city", "btc"}

\* calls that may read the caches at the same time
Readers == {1, 2}

\* a read that has not started
NoRead ==
    [pc |-> "idle", key |-> "city", row |-> [present |-> FALSE], fetched |-> FALSE,
     result |-> [present |-> FALSE]]

\* Number of start() calls that create a task in one behaviour.
MaxStarts == 3

\* tasks that may call send_command at the same time
Clients == {1, 2}

\* the scheduler after __init__, no build fired; the playout client after
\* import, no connection
LaterIdle ==
    /\ _lock = 0
    /\ _writer = 0
    /\ stream = [id |-> 0, buf |-> <<>>, pending |-> <<>>, eof |-> FALSE, closing |-> FALSE]
    /\ call = [c \in Clients |-> [pc |-> "idle", cmd |-> 0, lines |-> <<>>, result |-> "none"]]
    /\ shutdown = "no"
    /\ cmds = 0
    /\ conns = 0
    /\ _running = FALSE
    /\ _task = 0
    /\ loop = [t \in 1..MaxStarts |->
                 [pc |-> "none", first_run |-> TRUE, cancel |-> FALSE, sleeps |-> 0,
                  attempts |-> 0]]
    /\ awaited = {}
    /\ quiet_mode = FALSE
    /\ fired = 0
    /\ running_jobs = 0

\* no extension component has run
ExtIdle ==
    /\ LaterIdle
    /\ rot_break_count = [b \in Builds |-> 0]
    /\ cache_rows = [k \in CacheKeys |-> [present |-> FALSE]]
    /\ reader = [r \in Readers |-> NoRead]
    /\ poll_pc = [p \in Pollers |-> "idle"]
    /\ poll_list = [p \in Pollers |-> << >>]
    /\ poll_todo = [p \in Pollers |-> << >>]
    /\ news_rows = [i \in {news_id(x, _sanitize(t, 200)) : x \in SourceIds, t \in Titles} |-> 0]
    /\ cycles = 0
    /\ arg_limit = 3
    /\ arg_exclude = {}
    /\ tagged = {}

\* no news pipeline and no fallback call has run
OthersIdle ==
    /\ ExtIdle
    /\ news_sources = [s \in SourceIds |-> [enabled |-> TRUE]]
    /\ feed_health = [s \in SourceIds |-> [status |-> "healthy", consecutive_failures |-> 0]]
    /\ streak = [s \in SourceIds |-> 0]
    /\ feed_entries = [s \in SourceIds |-> {}]
    /\ cache_news = [n \in NewsIds |-> NoNews]
    /\ now = 0
    /\ run = 0
    /\ news_pc = "idle"
    /\ feed_i = 1
    /\ headlines = << >>
    /\ recent = << >>
    /\ last_used_at = [t \in TemplateIds |-> 0]
    /\ ladder_result = [script |-> None, level |-> 0]

\* no component outside prepare_break has run and no function is called
SideIdle ==
    /\ OthersIdle
    /\ args = [fn |-> "none"]
    /\ ret = [done |-> FALSE]

\* no prepare_break task has started
QueueIdle ==
    /\ break_queue = [i \in Ids |-> NoRow]
    /\ events_log = [i \in Ids |-> << >>]
    /\ sent = [i \in Ids |-> << >>]
    /\ tick = 1
    /\ pc = [b \in Builds |-> "idle"]
    /\ is_breaking = [b \in Builds |-> FALSE]
    /\ break_id = [b \in Builds |-> 0]
    /\ host = [b \in Builds |-> None]
    /\ weather_data = [b \in Builds |-> 0]
    /\ script = [b \in Builds |-> None]
    /\ deg_level = [b \in Builds |-> 0]
    /\ audio_path = [b \in Builds |-> None]
    /\ spoken = [b \in Builds |-> {}]
    /\ accepted = [b \in Builds |-> {}]

Init ==
    /\ SideIdle
    /\ hosts \in HostConfigs
    /\ stingExists \in BOOLEAN
    /\ templates \in TemplateConfigs
    /\ host_rotation \in RotationRows
    /\ break_queue = [i \in Ids |-> NoRow]
    /\ events_log = [i \in Ids |-> << >>]
    /\ sent = [i \in Ids |-> << >>]
    /\ tick = 1
    /\ pc = [b \in Builds |-> "idle"]
    /\ is_breaking = [b \in Builds |-> FALSE]
    /\ break_id = [b \in Builds |-> 0]
    /\ host = [b \in Builds |-> None]
    /\ weather_data = [b \in Builds |-> 0]
    /\ script = [b \in Builds |-> None]
    /\ deg_level = [b \in Builds |-> 0]
    /\ audio_path = [b \in Builds |-> None]
    /\ spoken = [b \in Builds |-> {}]
    /\ accepted = [b \in Builds |-> {}]

-----------------------------------------------------------------------------
(* break_queue operations *)

create_break(q, id, break_type, priority, host_id) ==
    [q EXCEPT ![id] = [status |-> "PREPARING", type |-> break_type,
                       priority |-> priority, host_id |-> host_id,
                       script_text |-> None, audio_path |-> None,
                       degradation_level |-> 0, meta |-> None]]

\* UPDATE ... WHERE id = ?: no row, no change
mark_ready(q, id, script_text, audio, degradation_level) ==
    IF q[id] = NoRow THEN q
    ELSE [q EXCEPT ![id].status = "READY", ![id].script_text = script_text,
                   ![id].audio_path = audio,
                   ![id].degradation_level = degradation_level,
                   ![id].meta = "meta"]

mark_played(q, id) ==
    IF q[id] = NoRow THEN q ELSE [q EXCEPT ![id].status = "PLAYED"]

mark_failed(q, id, reason) ==
    IF q[id] = NoRow THEN q
    ELSE [q EXCEPT ![id].status = "FAILED", ![id].meta = reason]

\* variant: the gate looks at scheduled rows only
get_preparing_scheduled(q) ==
    \E i \in Ids : q[i].status = "PREPARING" /\ q[i].type = "scheduled"

get_preparing_break(q) ==
    \E i \in Ids : q[i].status = "PREPARING"

\* variant: the error argument is dropped, every event is break_ready
_log_break_ready(log, id, level, error) ==
    [log EXCEPT ![id] = Append(@, [event_type |-> "break_ready",
                                   degradation_level |-> level,
                                   error |-> error])]

\* _log_break: the event appended to events_log
_log_break(log, id, level, error) ==
    [log EXCEPT ![id] = Append(@, [event_type |-> IF error # "" THEN "break_failed"
                                                  ELSE "break_ready",
                                   degradation_level |-> level,
                                   error |-> error])]

\* liquidsoap_client.push_break / reset_counter: the command written
push_break(s, id, path, ok) ==
    [s EXCEPT ![id] = Append(@, [cmd |-> "breaks.push", arg |-> path, ok |-> ok])]

reset_counter(s, id) ==
    [s EXCEPT ![id] = Append(@, [cmd |-> "hermes.reset_counter", arg |-> None, ok |-> TRUE])]

-----------------------------------------------------------------------------
(* degradation ladder *)

\* templates with the smallest use_count (ORDER BY use_count ASC, RANDOM())
LeastUsed(tpls) ==
    {t \in DOMAIN tpls : \A u \in DOMAIN tpls : tpls[t] <= tpls[u]}

\* variant: a template is filled only when three cities are available
get_fallback_script_three_cities(weather, tpls, sting) ==
    IF weather >= 3 /\ DOMAIN tpls # {}
    THEN { [script |-> FilledId(t), level |-> 2,
            templates |-> [tpls EXCEPT ![t] = @ + 1]] : t \in LeastUsed(tpls) }
    ELSE IF sting THEN { [script |-> None, level |-> 3, templates |-> tpls] }
    ELSE { [script |-> None, level |-> 4, templates |-> tpls] }

\* get_fallback_script: the possible results [script, level, templates]
get_fallback_script(weather, tpls, sting) ==
    IF weather >= 2 /\ DOMAIN tpls # {}
    THEN { [script |-> FilledId(t), level |-> 2,
            templates |-> [tpls EXCEPT ![t] = @ + 1]] : t \in LeastUsed(tpls) }
    ELSE IF sting THEN { [script |-> None, level |-> 3, templates |-> tpls] }
    ELSE { [script |-> None, level |-> 4, templates |-> tpls] }

get_sting_path(sting) == IF sting THEN STING ELSE None

-----------------------------------------------------------------------------
(* host rotation *)

\* variant: the breaking flag is ignored and every build takes the host
\* the rotation gives
get_next_host_rotating(is_brk, hs, rot) ==
    LET break_count == rot.break_count + 1
        next_id == IF break_count % 2 = 1 THEN "host_b" ELSE "host_a"
        cand == IF hs[next_id].enabled THEN {next_id}
                ELSE {h \in HostIds : hs[h].enabled}
    IN  IF cand = {} THEN { [host |-> None, rotation |-> rot] }
        ELSE { [host |-> h,
                rotation |-> [last_host_id |-> h, break_count |-> break_count]]
               : h \in cand }

\* get_next_host: the possible results [host, rotation]
get_next_host(is_brk, hs, rot) ==
    IF is_brk
    THEN LET cand == {h \in HostIds : hs[h].is_breaking_host /\ hs[h].enabled}
         IN  IF cand = {} THEN { [host |-> None, rotation |-> rot] }
             ELSE { [host |-> h, rotation |-> rot] : h \in cand }
    ELSE LET break_count == rot.break_count + 1
             next_id == IF break_count % 2 = 1 THEN "host_b" ELSE "host_a"
             cand == IF hs[next_id].enabled THEN {next_id}
                     ELSE {h \in HostIds : hs[h].enabled}
         IN  IF cand = {} THEN { [host |-> None, rotation |-> rot] }
             ELSE { [host |-> h,
                     rotation |-> [last_host_id |-> h, break_count |-> break_count]]
                    : h \in cand }

-----------------------------------------------------------------------------
(* prepare_break, one action per block between awaits *)

\* a task has returned: its locals (and what the model remembers of its
\* calls) are gone
Return(b) ==
    /\ host' = [host EXCEPT ![b] = None]
    /\ weather_data' = [weather_data EXCEPT ![b] = 0]
    /\ script' = [script EXCEPT ![b] = None]
    /\ deg_level' = [deg_level EXCEPT ![b] = 0]
    /\ audio_path' = [audio_path EXCEPT ![b] = None]
    /\ spoken' = [spoken EXCEPT ![b] = {}]
    /\ accepted' = [accepted EXCEPT ![b] = {}]

\* lines 30-47: break id, settings snapshot, admission gate.  Tasks are
\* numbered in the order they start.
Admit(b) ==
    /\ pc[b] = "idle"
    /\ b = tick
    /\ \E brk \in BOOLEAN :
         /\ is_breaking' = [is_breaking EXCEPT ![b] = brk]
         /\ break_id' = [break_id EXCEPT ![b] = tick]
         /\ tick' = tick + 1
         /\ IF get_preparing_break(break_queue) /\ ~brk
            THEN pc' = [pc EXCEPT ![b] = "skipped"]
            ELSE pc' = [pc EXCEPT ![b] = "host"]
    /\ UNCHANGED <<hosts, stingExists, templates, host_rotation, break_queue,
                   events_log, sent>>
    /\ UNCHANGED <<host, weather_data, script, deg_level, audio_path,
                   spoken, accepted>>
    /\ UNCHANGED side

\* lines 51-54: host_rotation.get_next_host
PickHost(b) ==
    /\ pc[b] = "host"
    /\ \E r \in get_next_host(is_breaking[b], hosts, host_rotation) :
         /\ host_rotation' = r.rotation
         /\ host' = [host EXCEPT ![b] = r.host]
         /\ pc' = [pc EXCEPT ![b] = IF r.host = None THEN "nohost" ELSE "create"]
    /\ UNCHANGED <<hosts, stingExists, templates, break_queue, events_log, sent, tick>>
    /\ UNCHANGED <<is_breaking, break_id, weather_data, script,
                   deg_level, audio_path, spoken, accepted>>
    /\ UNCHANGED side

\* lines 56-61: break_queue.create_break
Create(b) ==
    /\ pc[b] = "create"
    /\ break_queue' = create_break(break_queue, break_id[b],
                                   IF is_breaking[b] THEN "breaking" ELSE "scheduled",
                                   IF is_breaking[b] THEN 10 ELSE 0,
                                   host[b])
    /\ pc' = [pc EXCEPT ![b] = "build"]
    /\ UNCHANGED <<hosts, stingExists, templates, host_rotation, events_log, sent, tick>>
    /\ UNCHANGED locals
    /\ UNCHANGED side

\* numbers of weather rows a fetch returns
WeatherCounts == {1, 2}

\* variant: a weather fetch with fewer than two cities lowers the level of
\* the build
Generate_weather_degrades(b) ==
    /\ pc[b] = "build"
    /\ \E wc \in WeatherCounts, numeric \in BOOLEAN, out \in LLMOutputs :
         IF ~numeric
         THEN /\ pc' = [pc EXCEPT ![b] = "exc"]
              /\ UNCHANGED <<weather_data, script, deg_level>>
         ELSE /\ weather_data' = [weather_data EXCEPT ![b] = wc]
              /\ script' = [script EXCEPT ![b] = out]
              /\ deg_level' = [deg_level EXCEPT ![b] = IF wc < 2 THEN 1 ELSE @]
              /\ pc' = [pc EXCEPT ![b] = IF out = "" THEN "fallback" ELSE "filter"]
    /\ UNCHANGED shared
    /\ UNCHANGED <<is_breaking, break_id, host, audio_path, spoken, accepted>>
    /\ UNCHANGED side

\* lines 63-130: weather, market and news fetch, word bounds, LM writer.
\* int() of a non-numeric settings value raises ValueError.  The market data
\* only moves the word bound, so it is drawn where the bound is used.
Generate(b) ==
    /\ pc[b] = "build"
    /\ \E wc \in WeatherCounts, numeric \in BOOLEAN, out \in LLMOutputs :
         IF ~numeric
         THEN /\ pc' = [pc EXCEPT ![b] = "exc"]
              /\ UNCHANGED <<weather_data, script>>
         ELSE /\ weather_data' = [weather_data EXCEPT ![b] = wc]
              /\ script' = [script EXCEPT ![b] = out]
              /\ pc' = [pc EXCEPT ![b] = IF out = "" THEN "fallback" ELSE "filter"]
    /\ UNCHANGED shared
    /\ UNCHANGED <<is_breaking, break_id, host, deg_level, audio_path, spoken, accepted>>
    /\ UNCHANGED side

\* lines 133-152: LM failed, consult the ladder
Fallback(b) ==
    /\ pc[b] = "fallback"
    /\ \E r \in get_fallback_script(weather_data[b], templates, stingExists) :
         /\ templates' = r.templates
         /\ IF r.script = None /\ r.level = 3 /\ get_sting_path(stingExists) # None
            THEN /\ break_queue' = mark_ready(break_queue, break_id[b], "",
                                              get_sting_path(stingExists), 3)
                 /\ deg_level' = [deg_level EXCEPT ![b] = r.level]
                 /\ script' = [script EXCEPT ![b] = None]
                 /\ weather_data' = [weather_data EXCEPT ![b] = 0]
                 /\ pc' = [pc EXCEPT ![b] = "sting"]
                 /\ UNCHANGED <<events_log, host, audio_path, spoken, accepted>>
            ELSE IF r.script = None
            THEN /\ break_queue' = mark_failed(break_queue, break_id[b],
                                               "all fallbacks exhausted")
                 /\ events_log' = _log_break(events_log, break_id[b], 4,
                                             "all_fallbacks_failed")
                 /\ pc' = [pc EXCEPT ![b] = "done"]
                 /\ Return(b)
            ELSE /\ script' = [script EXCEPT ![b] = r.script]
                 /\ deg_level' = [deg_level EXCEPT ![b] = r.level]
                 /\ pc' = [pc EXCEPT ![b] = "filter"]
                 /\ UNCHANGED <<break_queue, events_log, host, weather_data, audio_path, spoken, accepted>>
    /\ UNCHANGED <<hosts, stingExists, host_rotation, sent, tick>>
    /\ UNCHANGED <<is_breaking, break_id>>
    /\ UNCHANGED side


\* lines 114-123: the word and character bounds of a build
s_min_w(brk) == IF brk THEN settings.breaking_min_words ELSE settings.break_min_words

s_max_w(brk, btc) ==
    IF brk THEN settings.breaking_max_words
    ELSE IF btc /\ settings.break_max_words < BITCOIN_MAX_WORDS THEN BITCOIN_MAX_WORDS
    ELSE settings.break_max_words

s_max_c == settings.break_max_chars

\* weather_data is read after the filter only for the count in meta, which
\* the model does not keep
Forget(b) ==
    /\ weather_data' = [weather_data EXCEPT ![b] = 0]

\* lines 155-166: content filter, ladder on rejection
Filter(b) ==
    /\ pc[b] = "filter"
    /\ \E bitcoin_data \in BOOLEAN :
       LET v == validate(script[b], is_breaking[b], s_min_w(is_breaking[b]),
                         s_max_w(is_breaking[b], bitcoin_data), s_max_c)
       IN  IF v.ok
           THEN /\ accepted' = [accepted EXCEPT ![b] = @ \cup {script[b]}]
                /\ pc' = [pc EXCEPT ![b] = "tts"]
                /\ Forget(b)
                /\ UNCHANGED <<templates, break_queue, events_log, host,
                               script, deg_level, audio_path, spoken>>
           ELSE \E r \in get_fallback_script(weather_data[b], templates, stingExists) :
                  /\ templates' = r.templates
                  /\ IF r.script = None
                     THEN /\ break_queue' = mark_failed(break_queue, break_id[b], "filter")
                          /\ events_log' = _log_break(events_log, break_id[b], r.level,
                                                      v.reason)
                          /\ pc' = [pc EXCEPT ![b] = "done"]
                          /\ Return(b)
                     ELSE /\ script' = [script EXCEPT ![b] = r.script]
                          /\ deg_level' = [deg_level EXCEPT ![b] = r.level]
                          /\ pc' = [pc EXCEPT ![b] = "tts"]
                          /\ Forget(b)
                          /\ UNCHANGED <<break_queue, events_log, host,
                                         audio_path, spoken, accepted>>
    /\ UNCHANGED <<hosts, stingExists, host_rotation, sent, tick>>
    /\ UNCHANGED <<is_breaking, break_id>>
    /\ UNCHANGED side

\* lines 169-202: dialog synthesis, monologue synthesis, sting when both fail
Synthesize(b) ==
    /\ pc[b] = "tts"
    /\ \E dialog_mode \in {"monologue", "dialog"}, dialog_script \in BOOLEAN,
          dialog_ok \in BOOLEAN, tts_ok \in BOOLEAN :
         LET in_dialog == dialog_mode = "dialog" /\ ~is_breaking[b] /\ dialog_script
             audio1 == IF in_dialog /\ dialog_ok THEN COMBINED ELSE None
             spoken1 == IF in_dialog THEN DialogLines ELSE {}
             audio2 == IF audio1 # None THEN audio1
                       ELSE IF tts_ok THEN MP3 ELSE None
             spoken2 == IF audio1 = None THEN spoken1 \cup {script[b]} ELSE spoken1
         IN  IF audio2 # None
                THEN /\ spoken' = [spoken EXCEPT ![b] = @ \cup spoken2]
                     /\ audio_path' = [audio_path EXCEPT ![b] = audio2]
                     /\ pc' = [pc EXCEPT ![b] = "commit"]
                     /\ UNCHANGED <<break_queue, events_log, host, weather_data, script, deg_level, accepted>>
                ELSE IF get_sting_path(stingExists) # None
                THEN /\ spoken' = [spoken EXCEPT ![b] = @ \cup spoken2]
                     /\ break_queue' = mark_ready(break_queue, break_id[b], script[b],
                                                  get_sting_path(stingExists), 3)
                     /\ pc' = [pc EXCEPT ![b] = "sting"]
                     /\ UNCHANGED <<events_log, host, weather_data,
                                    script, deg_level, audio_path, accepted>>
                ELSE /\ break_queue' = mark_failed(break_queue, break_id[b],
                                                   "TTS failed, no sting")
                     /\ events_log' = _log_break(events_log, break_id[b], 4, "tts_failed")
                     /\ pc' = [pc EXCEPT ![b] = "done"]
                     /\ Return(b)
    /\ UNCHANGED <<hosts, stingExists, templates, host_rotation, sent, tick>>
    /\ UNCHANGED <<is_breaking, break_id>>
    /\ UNCHANGED side

\* variant: the sting paths return without logging
StingPush_silent(b) ==
    /\ pc[b] = "sting"
    /\ \E ok \in BOOLEAN :
         sent' = push_break(sent, break_id[b], get_sting_path(stingExists), ok)
    /\ pc' = [pc EXCEPT ![b] = "done"]
    /\ Return(b)
    /\ UNCHANGED <<hosts, stingExists, templates, host_rotation, break_queue,
                   events_log, tick>>
    /\ UNCHANGED <<is_breaking, break_id>>
    /\ UNCHANGED side

\* lines 141-146 and 193-198 after mark_ready: push the sting, log, return
StingPush(b) ==
    /\ pc[b] = "sting"
    /\ \E ok \in BOOLEAN :
         sent' = push_break(sent, break_id[b], get_sting_path(stingExists), ok)
    /\ events_log' = _log_break(events_log, break_id[b], 3, "")
    /\ pc' = [pc EXCEPT ![b] = "done"]
    /\ Return(b)
    /\ UNCHANGED <<hosts, stingExists, templates, host_rotation, break_queue, tick>>
    /\ UNCHANGED <<is_breaking, break_id>>
    /\ UNCHANGED side

\* lines 204-228: optional video render (fills meta.video_path only), mark_ready
Commit(b) ==
    /\ pc[b] = "commit"
    /\ break_queue' = mark_ready(break_queue, break_id[b], script[b], audio_path[b],
                                 deg_level[b])
    /\ pc' = [pc EXCEPT ![b] = "inject"]
    /\ UNCHANGED <<hosts, stingExists, templates, host_rotation, events_log, sent, tick>>
    /\ UNCHANGED locals
    /\ UNCHANGED side

\* lines 230-240: push, counter reset, mark_played when pushed, log
Inject(b) ==
    /\ pc[b] = "inject"
    /\ \E pushed \in BOOLEAN :
         /\ sent' = reset_counter(push_break(sent, break_id[b], audio_path[b], pushed),
                                  break_id[b])
         /\ break_queue' = IF pushed THEN mark_played(break_queue, break_id[b])
                           ELSE break_queue
    /\ events_log' = _log_break(events_log, break_id[b], deg_level[b], "")
    /\ pc' = [pc EXCEPT ![b] = "done"]
    /\ Return(b)
    /\ UNCHANGED <<hosts, stingExists, templates, host_rotation, tick>>
    /\ UNCHANGED <<is_breaking, break_id>>
    /\ UNCHANGED side

\* lines 242-245: an exception unwound to the top of the build
Handler(b) ==
    /\ pc[b] = "exc"
    /\ break_queue' = mark_failed(break_queue, break_id[b], "exception")
    /\ events_log' = _log_break(events_log, break_id[b], 4, "exception")
    /\ pc' = [pc EXCEPT ![b] = "done"]
    /\ Return(b)
    /\ UNCHANGED <<hosts, stingExists, templates, host_rotation, sent, tick>>
    /\ UNCHANGED <<is_breaking, break_id>>
    /\ UNCHANGED side

-----------------------------------------------------------------------------
(* main.py lifespan: the process restarts; the tasks of the old process   *)
(* are gone and every PREPARING row is marked FAILED.                     *)

\* variant: the cleanup fails every entry that has not been played
Restart_unplayed ==
    /\ \E b \in Builds : pc[b] \in Running
    /\ pc' = [b \in Builds |-> IF pc[b] \in Running THEN "killed" ELSE pc[b]]
    /\ break_queue' = [i \in Ids |->
                         IF break_queue[i].status \in {"PREPARING", "READY"}
                         THEN [break_queue[i] EXCEPT !.status = "FAILED",
                                                     !.meta = "stale_preparing_on_startup"]
                         ELSE break_queue[i]]
    /\ host' = [b \in Builds |-> None]
    /\ weather_data' = [b \in Builds |-> 0]
    /\ script' = [b \in Builds |-> None]
    /\ deg_level' = [b \in Builds |-> 0]
    /\ audio_path' = [b \in Builds |-> None]
    /\ spoken' = [b \in Builds |-> {}]
    /\ accepted' = [b \in Builds |-> {}]
    /\ UNCHANGED <<hosts, stingExists, templates, host_rotation, events_log, sent, tick>>
    /\ UNCHANGED <<is_breaking, break_id>>
    /\ UNCHANGED side

Restart ==
    /\ \E b \in Builds : pc[b] \in Running
    /\ pc' = [b \in Builds |-> IF pc[b] \in Running THEN "killed" ELSE pc[b]]
    /\ break_queue' = [i \in Ids |->
                         IF break_queue[i].status = "PREPARING"
                         THEN [break_queue[i] EXCEPT !.status = "FAILED",
                                                     !.meta = "stale_preparing_on_startup"]
                         ELSE break_queue[i]]
    /\ host' = [b \in Builds |-> None]
    /\ weather_data' = [b \in Builds |-> 0]
    /\ script' = [b \in Builds |-> None]
    /\ deg_level' = [b \in Builds |-> 0]
    /\ audio_path' = [b \in Builds |-> None]
    /\ spoken' = [b \in Builds |-> {}]
    /\ accepted' = [b \in Builds |-> {}]
    /\ UNCHANGED <<hosts, stingExists, templates, host_rotation, events_log, sent, tick>>
    /\ UNCHANGED <<is_breaking, break_id>>
    /\ UNCHANGED side

\* aiosqlite raises (sqlite3.OperationalError) inside create_break or
\* mark_ready: the write is not applied and the exception unwinds to the
\* handler of prepare_break
StoreFault(b) ==
    /\ pc[b] \in {"create", "commit"}
    /\ pc' = [pc EXCEPT ![b] = "exc"]
    /\ UNCHANGED shared
    /\ UNCHANGED locals
    /\ UNCHANGED side

\* lines 230-239 when mark_played or _log_break raises: the push and the
\* counter reset have been written; mark_played was applied only if it is
\* _log_break that raised
InjectFault(b) ==
    /\ pc[b] = "inject"
    /\ \E pushed \in BOOLEAN, played \in BOOLEAN :
         /\ played => pushed
         /\ sent' = reset_counter(push_break(sent, break_id[b], audio_path[b], pushed),
                                  break_id[b])
         /\ break_queue' = IF played THEN mark_played(break_queue, break_id[b])
                           ELSE break_queue
    /\ pc' = [pc EXCEPT ![b] = "exc"]
    /\ UNCHANGED <<hosts, stingExists, templates, host_rotation, events_log, tick>>
    /\ UNCHANGED locals
    /\ UNCHANGED side

\* lines 141-145 and 193-197 when _log_break raises after the sting push
StingFault(b) ==
    /\ pc[b] = "sting"
    /\ \E ok \in BOOLEAN :
         sent' = push_break(sent, break_id[b], get_sting_path(stingExists), ok)
    /\ pc' = [pc EXCEPT ![b] = "exc"]
    /\ UNCHANGED <<hosts, stingExists, templates, host_rotation, break_queue,
                   events_log, tick>>
    /\ UNCHANGED locals
    /\ UNCHANGED side

\* lines 35-44 when the settings SELECT or get_preparing_break raises: the
\* statements are outside the try block, the exception leaves prepare_break
GateFault(b) ==
    /\ pc[b] = "idle"
    /\ b = tick
    /\ break_id' = [break_id EXCEPT ![b] = tick]
    /\ tick' = tick + 1
    /\ pc' = [pc EXCEPT ![b] = "raised"]
    /\ UNCHANGED <<hosts, stingExists, templates, host_rotation, break_queue,
                   events_log, sent>>
    /\ UNCHANGED <<is_breaking, host, weather_data, script, deg_level, audio_path,
                   spoken, accepted>>
    /\ UNCHANGED side

\* lines 244-245 when mark_failed or _log_break raises inside the handler:
\* the exception leaves prepare_break; mark_failed was applied only if it is
\* _log_break that raised
HandlerFault(b) ==
    /\ pc[b] = "exc"
    /\ \E marked \in BOOLEAN :
         break_queue' = IF marked THEN mark_failed(break_queue, break_id[b], "exception")
                        ELSE break_queue
    /\ pc' = [pc EXCEPT ![b] = "raised"]
    /\ Return(b)
    /\ UNCHANGED <<hosts, stingExists, templates, host_rotation, events_log, sent, tick>>
    /\ UNCHANGED <<is_breaking, break_id>>
    /\ UNCHANGED side

-----------------------------------------------------------------------------

Next ==
    \/ \E b \in Builds : Admit(b)
    \/ \E b \in Builds : PickHost(b)
    \/ \E b \in Builds : Create(b)
    \/ \E b \in Builds : Generate(b)
    \/ \E b \in Builds : Fallback(b)
    \/ \E b \in Builds : Filter(b)
    \/ \E b \in Builds : Synthesize(b)
    \/ \E b \in Builds : StingPush(b)
    \/ \E b \in Builds : Commit(b)
    \/ \E b \in Builds : Inject(b)
    \/ \E b \in Builds : Handler(b)

\* builds whose store operations never raise, in one run of the process
Spec == Init /\ [][Next]_vars

\* get_next_host of a scheduled build, lines 21-23: the SELECT of the
\* rotation row
ReadRotation(b) ==
    /\ pc[b] = "host"
    /\ ~is_breaking[b]
    /\ rot_break_count' = [rot_break_count EXCEPT ![b] = host_rotation.break_count + 1]
    /\ pc' = [pc EXCEPT ![b] = "rotate"]
    /\ UNCHANGED <<shared, locals, news, now, ladder, poll, top, cachev, later>>

\* get_next_host of a scheduled build, lines 25-49: the host by the parity of
\* break_count, any enabled host when that one is disabled, and the UPDATE
\* of the rotation row
UpdateRotation(b) ==
    /\ pc[b] = "rotate"
    /\ LET next_id == IF rot_break_count[b] % 2 = 1 THEN "host_b" ELSE "host_a"
           cand == IF hosts[next_id].enabled THEN {next_id}
                   ELSE {h \in HostIds : hosts[h].enabled}
       IN  IF cand = {}
           THEN /\ pc' = [pc EXCEPT ![b] = "nohost"]
                /\ UNCHANGED <<host_rotation, host>>
           ELSE \E h \in cand :
                  /\ host_rotation' = [last_host_id |-> h, break_count |-> rot_break_count[b]]
                  /\ host' = [host EXCEPT ![b] = h]
                  /\ pc' = [pc EXCEPT ![b] = "create"]
    /\ UNCHANGED <<hosts, stingExists, templates, break_queue, events_log, sent, tick>>
    /\ UNCHANGED <<is_breaking, break_id, weather_data, script,
                   deg_level, audio_path, spoken, accepted>>
    /\ UNCHANGED side

\* the builds with get_next_host taken one await at a time
RotSpec ==
    Init /\ [][\/ \E b \in Builds : Admit(b)
               \/ \E b \in Builds : is_breaking[b] /\ PickHost(b)
               \/ \E b \in Builds : ReadRotation(b)
               \/ \E b \in Builds : UpdateRotation(b)
               \/ \E b \in Builds : Create(b)
               \/ \E b \in Builds : Generate(b)
               \/ \E b \in Builds : Fallback(b)
               \/ \E b \in Builds : Filter(b)
               \/ \E b \in Builds : Synthesize(b)
               \/ \E b \in Builds : StingPush(b)
               \/ \E b \in Builds : Commit(b)
               \/ \E b \in Builds : Inject(b)
               \/ \E b \in Builds : Handler(b)]_vars

\* the same builds with store exceptions and process restarts
NextFault ==
    \/ Next
    \/ \E b \in Builds : StoreFault(b)
    \/ \E b \in Builds : InjectFault(b)
    \/ \E b \in Builds : StingFault(b)
    \/ \E b \in Builds : GateFault(b)
    \/ \E b \in Builds : HandlerFault(b)
    \/ Restart

SpecFault == Init /\ [][NextFault]_vars

-----------------------------------------------------------------------------
(* News pipeline of a build: prepare_break lines 77-110 with                *)
(* core/providers/news.py.  One build at a time runs it.                    *)

\* Number of builds that run the news pipeline in one behaviour.
MaxRuns == 6

\* scores the LM scorer gives
ScoreValues == {3, 6, 8}

\* get_top_headlines: AND score >= 4
MIN_SCORE == 4
\* prepare_break: get_top_headlines(limit=3, ...)
TOP_LIMIT == 3
\* prepare_break: get_recent_headline_ids(lookback=2)
LOOKBACK == 2
\* prepare_break: settings.get("news_dedupe_window_minutes", "60")
news_dedupe_window_minutes == 60
\* _fetch_feed: dead when consecutive_failures + 1 >= 5
DEAD_AFTER == 5
\* minutes in the date part of a timestamp
MinutesPerDay == 1440

\* what the feeds serve in a behaviour
FeedConfigs ==
    { [s \in SourceIds |-> {}],
      [s \in SourceIds |-> IF s = "src_a" THEN {"n1", "n2"} ELSE {"n3"}],
      [s \in SourceIds |-> IF s = "src_a" THEN {"n1", "n2", "n3"} ELSE {}] }

\* _fetch_feed, "Update health: success"
health_success(row) == [status |-> "healthy", consecutive_failures |-> 0]

\* variant: the source is dead only when the count exceeds 5
health_failure_late(row) ==
    [status |-> IF row.consecutive_failures + 1 > DEAD_AFTER THEN "dead" ELSE "unhealthy",
     consecutive_failures |-> row.consecutive_failures + 1]

\* _fetch_feed, "Update health: failure"
health_failure(row) ==
    [status |-> IF row.consecutive_failures + 1 >= DEAD_AFTER THEN "dead" ELSE "unhealthy",
     consecutive_failures |-> row.consecutive_failures + 1]

\* fetch_all_feeds: WHERE ns.enabled = 1 AND fh.status != 'dead'
Pollable(s) == news_sources[s].enabled /\ feed_health[s].status # "dead"

\* _fetch_feed lines 63-112: a row for every entry that has none
insert_entries(cache, entries, t) ==
    [n \in NewsIds |->
       IF n \in entries /\ ~cache[n].present
       THEN [present |-> TRUE, scored |-> FALSE, score |-> 0, fetched_at |-> t]
       ELSE cache[n]]

\* mark_scored for every scored headline
mark_scored(cache, scores) ==
    [n \in NewsIds |->
       IF n \in DOMAIN scores /\ cache[n].present
       THEN [cache[n] EXCEPT !.scored = TRUE, !.score = scores[n]]
       ELSE cache[n]]

\* get_recent_unscored
get_recent_unscored(cache) == {n \in NewsIds : cache[n].present /\ ~cache[n].scored}

\* the date part of a timestamp
Day(t) == t \div MinutesPerDay

\* fetched_at > datetime('now', '-N minutes'): fetched_at is an ISO string
\* ("2026-01-01T10:00:00+00:00"), datetime() gives "2026-01-01 09:00:00"; the
\* strings are compared as text, so the date decides and on equal dates 'T'
\* is greater than ' '
InWindow(fetched_at, t, window) == Day(fetched_at) >= Day(t - window)

\* variant: no score threshold
Eligible_any_score(cache, t, window) ==
    {n \in NewsIds : /\ cache[n].present
                     /\ cache[n].scored
                     /\ InWindow(cache[n].fetched_at, t, window)}

Eligible(cache, t, window) ==
    {n \in NewsIds : /\ cache[n].present
                     /\ cache[n].scored
                     /\ cache[n].score >= MIN_SCORE
                     /\ InWindow(cache[n].fetched_at, t, window)}

\* ORDER BY score DESC, fetched_at DESC: the orders the query may return S in
Ordered(S, cache) ==
    {q \in [1..Cardinality(S) -> S] :
       \A i \in 1..Cardinality(S), j \in 1..Cardinality(S) :
         i < j => /\ q[i] # q[j]
                  /\ \/ cache[q[i]].score > cache[q[j]].score
                     \/ /\ cache[q[i]].score = cache[q[j]].score
                        /\ cache[q[i]].fetched_at >= cache[q[j]].fetched_at}

\* LIMIT
Take(q, k) == SubSeq(q, 1, IF Len(q) < k THEN Len(q) ELSE k)

Range(q) == {q[i] : i \in 1..Len(q)}

\* get_top_headlines lines 201-206
RECURSIVE Backfill(_, _, _)
Backfill(rows, all_rows, limit) ==
    IF all_rows = << >> THEN rows
    ELSE IF Head(all_rows) \notin Range(rows) /\ Len(rows) < limit
         THEN Backfill(Append(rows, Head(all_rows)), Tail(all_rows), limit)
         ELSE Backfill(rows, Tail(all_rows), limit)

\* get_top_headlines: the lists it may return
get_top_headlines(cache, limit, t, window, exclude_ids) ==
    IF exclude_ids # {}
    THEN { IF Len(rows) < limit THEN Backfill(rows, all_rows, limit) ELSE rows :
             rows \in {Take(q, limit) :
                         q \in Ordered(Eligible(cache, t, window) \ exclude_ids, cache)},
             all_rows \in {Take(q, limit) :
                             q \in Ordered(Eligible(cache, t, window), cache)} }
    ELSE {Take(q, limit) : q \in Ordered(Eligible(cache, t, window), cache)}

\* get_recent_headline_ids: headline ids of the newest READY/PLAYED entries
get_recent_headline_ids(rec, lookback) ==
    UNION {Range(rec[i]) : i \in 1..(IF Len(rec) < lookback THEN Len(rec) ELSE lookback)}

\* a build reaches the news step
StartRun ==
    /\ news_pc = "idle"
    /\ run < MaxRuns
    /\ run' = run + 1
    /\ news_pc' = "fetch"
    /\ feed_i' = 1
    /\ UNCHANGED <<news_sources, feed_health, streak, feed_entries, cache_news,
                   headlines, recent>>
    /\ UNCHANGED <<builds, now, ladder, ext>>

\* fetch_all_feeds: one turn of its loop, _fetch_feed for a source that is
\* enabled and not dead
FetchFeed ==
    /\ news_pc = "fetch"
    /\ LET s == Sources[feed_i]
       IN  IF ~Pollable(s)
           THEN UNCHANGED <<feed_health, streak, cache_news>>
           ELSE \E ok \in BOOLEAN :
                  IF ok
                  THEN /\ cache_news' = insert_entries(cache_news, feed_entries[s], now)
                       /\ feed_health' = [feed_health EXCEPT ![s] = health_success(@)]
                       /\ streak' = [streak EXCEPT ![s] = 0]
                  ELSE /\ feed_health' = [feed_health EXCEPT ![s] = health_failure(@)]
                       /\ streak' = [streak EXCEPT ![s] = @ + 1]
                       /\ UNCHANGED cache_news
    /\ feed_i' = IF feed_i < Len(Sources) THEN feed_i + 1 ELSE 1
    /\ news_pc' = IF feed_i < Len(Sources) THEN "fetch" ELSE "score"
    /\ UNCHANGED <<news_sources, feed_entries, run, headlines, recent>>
    /\ UNCHANGED <<builds, now, ladder, ext>>

\* lines 81-95: the unscored headlines go to the LM scorer, which returns a
\* score for each or nothing
Score ==
    /\ news_pc = "score"
    /\ LET unscored == get_recent_unscored(cache_news)
       IN  IF unscored = {} THEN UNCHANGED cache_news
           ELSE \E scores \in [unscored -> ScoreValues] \cup {<< >>} :
                  cache_news' = mark_scored(cache_news, scores)
    /\ news_pc' = "select"
    /\ UNCHANGED <<news_sources, feed_health, streak, feed_entries, run, feed_i,
                   headlines, recent>>
    /\ UNCHANGED <<builds, now, ladder, ext>>

\* lines 97-108: the headlines of the break
Select ==
    /\ news_pc = "select"
    /\ \E r \in get_top_headlines(cache_news, TOP_LIMIT, now, news_dedupe_window_minutes,
                                   get_recent_headline_ids(recent, LOOKBACK)) :
         headlines' = r
    /\ news_pc' = "built"
    /\ UNCHANGED <<news_sources, feed_health, streak, feed_entries, cache_news, run,
                   feed_i, recent>>
    /\ UNCHANGED <<builds, now, ladder, ext>>

\* lines 212-228: the rest of the build; when it marks its entry READY the
\* entry's meta carries headlines = len(headlines) and headline_ids
Finish ==
    /\ news_pc = "built"
    /\ \E ready \in BOOLEAN :
         recent' = IF ready THEN Take(<<headlines>> \o recent, LOOKBACK) ELSE recent
    /\ headlines' = << >>
    /\ news_pc' = "idle"
    /\ UNCHANGED <<news_sources, feed_health, streak, feed_entries, cache_news, run,
                   feed_i>>
    /\ UNCHANGED <<builds, now, ladder, ext>>

\* no build and no fallback call: the tables the news pipeline does not use
BuildsIdle ==
    /\ QueueIdle
    /\ hosts \in {h \in HostConfigs : h["host_a"].enabled /\ h["host_b"].enabled}
    /\ stingExists = TRUE
    /\ templates = << >>
    /\ host_rotation = [last_host_id |-> None, break_count |-> 0]

NewsInit ==
    /\ BuildsIdle
    /\ ExtIdle
    /\ args = [fn |-> "none"]
    /\ ret = [done |-> FALSE]
    /\ news_sources \in {[s \in SourceIds |-> [enabled |-> s = "src_a" \/ e]] : e \in BOOLEAN}
    /\ feed_health = [s \in SourceIds |-> [status |-> "healthy", consecutive_failures |-> 0]]
    /\ streak = [s \in SourceIds |-> 0]
    /\ feed_entries \in FeedConfigs
    /\ cache_news = [n \in NewsIds |-> NoNews]
    /\ now = 0
    /\ run = 0
    /\ news_pc = "idle"
    /\ feed_i = 1
    /\ headlines = << >>
    /\ recent = << >>
    /\ last_used_at = [t \in TemplateIds |-> 0]
    /\ ladder_result = [script |-> None, level |-> 0]

NewsNext ==
    \/ StartRun
    \/ FetchFeed
    \/ Score
    \/ Select
    \/ Finish

NewsSpec == NewsInit /\ [][NewsNext]_vars

-----------------------------------------------------------------------------
(* Fallback ladder: successive calls of degradation.get_fallback_script    *)

\* Number of get_fallback_script calls in one behaviour.
MaxUses == 8

\* a build calls get_fallback_script, a minute after the previous call; the
\* UPDATE of line 43 sets last_used_at = datetime('now') on the chosen row
UseFallback ==
    /\ now < MaxUses
    /\ now' = now + 1
    /\ \E cities \in {1, 2} :
       \E r \in get_fallback_script(cities, templates, stingExists) :
         /\ templates' = r.templates
         /\ last_used_at' = [t \in TemplateIds |->
                               IF t \in DOMAIN templates /\ r.templates[t] # templates[t]
                               THEN now' ELSE last_used_at[t]]
         /\ ladder_result' = [script |-> r.script, level |-> r.level]
    /\ UNCHANGED <<hosts, stingExists, host_rotation, break_queue, events_log, sent, tick>>
    /\ UNCHANGED <<pc, locals, news, ext>>

LadderInit ==
    /\ QueueIdle
    /\ SideIdle
    /\ hosts \in {h \in HostConfigs : h["host_a"].enabled /\ h["host_b"].enabled}
    /\ host_rotation = [last_host_id |-> None, break_count |-> 0]
    /\ stingExists \in BOOLEAN
    /\ templates \in TemplateConfigs \cup {[t \in TemplateIds |-> 0]}

LadderNext == UseFallback

LadderSpec == LadderInit /\ [][LadderNext]_vars

-----------------------------------------------------------------------------
(* Overlapping poll cycles: fetch_all_feeds and _fetch_feed step by step,   *)
(* one step per await, for builds that run at the same time                *)

\* Number of fetch_all_feeds calls in one behaviour.
MaxCycles == 6

\* pages a feed may serve
FeedPages ==
    { << <<"R", "a">>, <<"<b>", "r", "a", "</b>", " ">> >>,
      << <<"<i>", "</i>">>, <<"S", "^G", "u">> >> }

\* cache_news.id is the key of the table: a row with the id conflicts
conflicts(rows, id) == rows[id] > 0

\* variant: INSERT without OR IGNORE into a table without a key
insert_plain(rows, id) == [rows EXCEPT ![id] = @ + 1]

\* INSERT OR IGNORE INTO cache_news
insert_or_ignore(rows, id) ==
    IF conflicts(rows, id) THEN rows ELSE [rows EXCEPT ![id] = @ + 1]

\* fetch_all_feeds lines 31-39: the sources to poll
Query(p) ==
    /\ poll_pc[p] = "idle"
    /\ cycles < MaxCycles
    /\ cycles' = cycles + 1
    /\ poll_list' = [poll_list EXCEPT ![p] = SelectSeq(Sources, Pollable)]
    /\ poll_pc' = [poll_pc EXCEPT ![p] = IF poll_list'[p] = << >> THEN "idle" ELSE "get"]
    /\ UNCHANGED <<poll_todo, news_rows>>
    /\ UNCHANGED <<builds, news, now, ladder, top, cachev, rot_break_count, later>>

\* _fetch_feed lines 53-60: the HTTP request and the parse, or an exception
Get(p) ==
    /\ poll_pc[p] = "get"
    /\ \/ \E page \in FeedPages :
            /\ poll_todo' = [poll_todo EXCEPT ![p] = page]
            /\ poll_pc' = [poll_pc EXCEPT ![p] = "entries"]
       \/ /\ poll_pc' = [poll_pc EXCEPT ![p] = "failed"]
          /\ UNCHANGED poll_todo
    /\ UNCHANGED <<poll_list, news_rows, cycles>>
    /\ UNCHANGED <<builds, news, now, ladder, top, cachev, rot_break_count, later>>

\* _fetch_feed lines 63-76: the next entry, skipped when its title is empty
\* or the dedup SELECT finds its id
Check(p) ==
    /\ poll_pc[p] = "entries"
    /\ poll_todo[p] # << >>
    /\ LET title == _sanitize(Head(poll_todo[p]), 200)
       IN  IF title = << >> \/ news_rows[news_id(Head(poll_list[p]), title)] > 0
           THEN /\ poll_todo' = [poll_todo EXCEPT ![p] = Tail(@)]
                /\ UNCHANGED poll_pc
           ELSE /\ poll_pc' = [poll_pc EXCEPT ![p] = "insert"]
                /\ UNCHANGED poll_todo
    /\ UNCHANGED <<poll_list, news_rows, cycles>>
    /\ UNCHANGED <<builds, news, now, ladder, top, cachev, rot_break_count, later>>

\* _fetch_feed lines 86-101
Insert(p) ==
    /\ poll_pc[p] = "insert"
    /\ news_rows' = insert_or_ignore(news_rows,
                        news_id(Head(poll_list[p]), _sanitize(Head(poll_todo[p]), 200)))
    /\ poll_todo' = [poll_todo EXCEPT ![p] = Tail(@)]
    /\ poll_pc' = [poll_pc EXCEPT ![p] = "entries"]
    /\ UNCHANGED <<poll_list, cycles>>
    /\ UNCHANGED <<builds, news, now, ladder, top, cachev, rot_break_count, later>>

\* _fetch_feed lines 116-138: the health update, then fetch_all_feeds goes
\* on to its next source
Health(p) ==
    /\ \/ /\ poll_pc[p] = "entries"
          /\ poll_todo[p] = << >>
          /\ feed_health' = [feed_health EXCEPT ![Head(poll_list[p])] = health_success(@)]
       \/ /\ poll_pc[p] = "failed"
          /\ feed_health' = [feed_health EXCEPT ![Head(poll_list[p])] = health_failure(@)]
    /\ poll_list' = [poll_list EXCEPT ![p] = Tail(@)]
    /\ poll_pc' = [poll_pc EXCEPT ![p] = IF poll_list'[p] = << >> THEN "idle" ELSE "get"]
    /\ UNCHANGED <<poll_todo, news_rows, cycles>>
    /\ UNCHANGED <<news_sources, streak, feed_entries, cache_news, run, news_pc, feed_i,
                   headlines, recent>>
    /\ UNCHANGED <<builds, now, ladder, top, cachev, rot_break_count, later>>

PollInit ==
    /\ BuildsIdle
    /\ ExtIdle
    /\ args = [fn |-> "none"]
    /\ ret = [done |-> FALSE]
    /\ news_sources \in {[s \in SourceIds |-> [enabled |-> s = "src_a" \/ e]] : e \in BOOLEAN}
    /\ feed_health = [s \in SourceIds |-> [status |-> "healthy", consecutive_failures |-> 0]]
    /\ streak = [s \in SourceIds |-> 0]
    /\ feed_entries = [s \in SourceIds |-> {}]
    /\ cache_news = [n \in NewsIds |-> NoNews]
    /\ now = 0
    /\ run = 0
    /\ news_pc = "idle"
    /\ feed_i = 1
    /\ headlines = << >>
    /\ recent = << >>
    /\ last_used_at = [t \in TemplateIds |-> 0]
    /\ ladder_result = [script |-> None, level |-> 0]

PollSpec ==
    PollInit /\ [][\E p \in Pollers : Query(p) \/ Get(p) \/ Check(p) \/ Insert(p) \/ Health(p)]_vars

-----------------------------------------------------------------------------
(* get_top_headlines as a function of the table, the clock and its         *)
(* arguments                                                               *)

\* fetched_at of the rows, in minutes: the day before the call, the day of
\* the call but hours before it, and ten minutes before the call
FetchTimes == {1000, 1500, 1990}

\* the table and the clock a call finds; the rows of the table are drawn
TopTable ==
    /\ BuildsIdle
    /\ LaterIdle
    /\ args = [fn |-> "none"]
    /\ ret = [done |-> FALSE]
    /\ rot_break_count = [b \in Builds |-> 0]
    /\ cache_rows = [k \in CacheKeys |-> [present |-> FALSE]]
    /\ reader = [r \in Readers |-> NoRead]
    /\ poll_pc = [p \in Pollers |-> "idle"]
    /\ poll_list = [p \in Pollers |-> << >>]
    /\ poll_todo = [p \in Pollers |-> << >>]
    /\ news_rows = [i \in {news_id(x, _sanitize(t, 200)) : x \in SourceIds, t \in Titles} |-> 0]
    /\ cycles = 0
    /\ tagged = {}
    /\ news_sources = [s \in SourceIds |-> [enabled |-> TRUE]]
    /\ feed_health = [s \in SourceIds |-> [status |-> "healthy", consecutive_failures |-> 0]]
    /\ streak = [s \in SourceIds |-> 0]
    /\ feed_entries = [s \in SourceIds |-> {}]
    /\ cache_news \in [NewsIds -> {NoNews} \cup
                         [present : {TRUE}, scored : BOOLEAN, score : {0} \cup ScoreValues,
                          fetched_at : FetchTimes]]
    /\ \A n \in NewsIds :
         cache_news[n].present => (cache_news[n].scored <=> cache_news[n].score # 0)
    /\ now = 2000
    /\ run = 0
    /\ news_pc = "select"
    /\ feed_i = 1
    /\ headlines = << >>
    /\ last_used_at = [t \in TemplateIds |-> 0]
    /\ ladder_result = [script |-> None, level |-> 0]

TopInit ==
    /\ TopTable
    /\ arg_limit \in 1..TOP_LIMIT
    /\ arg_exclude \in SUBSET NewsIds
    /\ recent = << >>

\* one call of get_top_headlines
TopCall ==
    /\ news_pc = "select"
    /\ \E r \in get_top_headlines(cache_news, arg_limit, now, news_dedupe_window_minutes,
                                   arg_exclude) :
         headlines' = r
    /\ news_pc' = "built"
    /\ UNCHANGED <<news_sources, feed_health, streak, feed_entries, cache_news, run,
                   feed_i, recent>>
    /\ UNCHANGED <<builds, now, ladder, ext>>

TopSpec == TopInit /\ [][TopCall]_vars

\* prepare_break: get_recent_headline_ids(lookback=10)
TAG_LOOKBACK == 10

PickInit ==
    /\ TopTable
    /\ arg_limit = TOP_LIMIT
    /\ arg_exclude = {}
    /\ recent \in { << >>,
                    << <<"n1">> >>,
                    << <<"n1", "n2">>, <<"n3">> >>,
                    << <<"n1">>, << >>, <<"n2", "n3">> >> }

\* prepare_break lines 97-108: the headlines of the break and their tags
Pick ==
    /\ news_pc = "select"
    /\ LET recently_used_ids == get_recent_headline_ids(recent, LOOKBACK)
           all_used_ids == get_recent_headline_ids(recent, TAG_LOOKBACK)
       IN  \E r \in get_top_headlines(cache_news, TOP_LIMIT, now,
                                       news_dedupe_window_minutes, recently_used_ids) :
             /\ headlines' = r
             /\ tagged' = {h \in Range(r) : h \in all_used_ids}
    /\ news_pc' = "built"
    /\ UNCHANGED <<news_sources, feed_health, streak, feed_entries, cache_news, run,
                   feed_i, recent>>
    /\ UNCHANGED <<builds, now, ladder, poll, arg_limit, arg_exclude, cachev, rot_break_count, later>>

PickSpec == PickInit /\ [][Pick]_vars

-----------------------------------------------------------------------------
(* Weather and market caches: weather._get_cached_or_fetch and             *)
(* bitcoin.get_bitcoin_data with the market enabled and its key set        *)

\* no build has run and no component has been used
IdleInit == BuildsIdle /\ SideIdle

\* Last value of the clock in a behaviour of the caches, in minutes.
MaxClock == 20

\* weather.py: CACHE_TTL_SECONDS
CACHE_TTL_SECONDS == 600
\* bitcoin.py: settings.get("bitcoin_cache_ttl", "300")
bitcoin_cache_ttl == 300

\* time to live of an entry, in minutes
TTL(k) == (IF k = "btc" THEN bitcoin_cache_ttl ELSE CACHE_TTL_SECONDS) \div 60

\* the clock advances
Pass ==
    /\ now + 5 <= MaxClock
    /\ now' = now + 5
    /\ UNCHANGED <<builds, news, ladder, ext>>

\* the SELECT of the entry and the test row and row["expires_at"] > now
Lookup(r, k) ==
    /\ reader[r].pc = "idle"
    /\ reader' = [reader EXCEPT ![r] =
                    IF cache_rows[k].present /\ cache_rows[k].expires_at > now
                    THEN [pc |-> "done", key |-> k, row |-> cache_rows[k], fetched |-> FALSE,
                          result |-> [present |-> TRUE, payload |-> cache_rows[k].payload,
                                      stale |-> FALSE]]
                    ELSE [pc |-> "fetch", key |-> k, row |-> cache_rows[k], fetched |-> FALSE,
                          result |-> [present |-> FALSE]]]
    /\ UNCHANGED <<cache_rows, builds, news, now, ladder, poll, top, rot_break_count, later>>

\* variant: the expired payload is returned without the stale mark
Refresh_unmarked(r) ==
    /\ reader[r].pc = "fetch"
    /\ \/ /\ cache_rows' = [cache_rows EXCEPT ![reader[r].key] =
                               [present |-> TRUE, payload |-> now,
                                expires_at |-> now + TTL(reader[r].key)]]
          /\ reader' = [reader EXCEPT ![r].pc = "done", ![r].fetched = TRUE,
                           ![r].result = [present |-> TRUE, payload |-> now, stale |-> FALSE]]
       \/ /\ UNCHANGED cache_rows
          /\ reader' = [reader EXCEPT ![r].pc = "done", ![r].fetched = TRUE,
                           ![r].result =
                              IF reader[r].row.present
                              THEN [present |-> TRUE, payload |-> reader[r].row.payload,
                                    stale |-> FALSE]
                              ELSE [present |-> FALSE]]
    /\ UNCHANGED <<builds, news, now, ladder, poll, top, rot_break_count, later>>

\* the fetch: on success INSERT OR REPLACE with expires = time.time() + TTL
\* and the fresh payload returned; on failure the selected row, marked
\* stale, or None.  The payload fetched at a time is named by that time.
Refresh(r) ==
    /\ reader[r].pc = "fetch"
    /\ \/ /\ cache_rows' = [cache_rows EXCEPT ![reader[r].key] =
                               [present |-> TRUE, payload |-> now,
                                expires_at |-> now + TTL(reader[r].key)]]
          /\ reader' = [reader EXCEPT ![r].pc = "done", ![r].fetched = TRUE,
                           ![r].result = [present |-> TRUE, payload |-> now, stale |-> FALSE]]
       \/ /\ UNCHANGED cache_rows
          /\ reader' = [reader EXCEPT ![r].pc = "done", ![r].fetched = TRUE,
                           ![r].result =
                              IF reader[r].row.present
                              THEN [present |-> TRUE, payload |-> reader[r].row.payload,
                                    stale |-> TRUE]
                              ELSE [present |-> FALSE]]
    /\ UNCHANGED <<builds, news, now, ladder, poll, top, rot_break_count, later>>

\* the call returns
Returned(r) ==
    /\ reader[r].pc = "done"
    /\ reader' = [reader EXCEPT ![r] = NoRead]
    /\ UNCHANGED <<cache_rows, builds, news, now, ladder, poll, top, rot_break_count, later>>

CacheSpec ==
    IdleInit
    /\ [][\/ Pass
          \/ \E r \in Readers : (\E k \in CacheKeys : Lookup(r, k)) \/ Refresh(r) \/ Returned(r)]_vars

-----------------------------------------------------------------------------
(* Break scheduler: core/services/scheduler.py, one step per await         *)

\* Number of fire attempts of one loop in one behaviour.
MaxFires == 2

\* start()
start ==
    /\ IF _running
       THEN UNCHANGED <<_running, _task, loop>>
       ELSE \E t \in 1..MaxStarts :
              /\ loop[t].pc = "none"
              /\ \A u \in 1..(t - 1) : loop[u].pc # "none"
              /\ _running' = TRUE
              /\ _task' = t
              /\ loop' = [loop EXCEPT ![t].pc = "new"]
    /\ UNCHANGED <<awaited, quiet_mode, fired, running_jobs>>
    /\ UNCHANGED <<builds, news, now, ladder, poll, top, cachev, rot_break_count, liq, fn>>

\* stop() up to its await: the flag, the cancel request and the wait for
\* the task
stop ==
    /\ IF ~_running
       THEN UNCHANGED <<_running, loop, awaited>>
       ELSE /\ _running' = FALSE
            /\ IF _task # 0
               THEN /\ loop' = [loop EXCEPT ![_task].cancel = (loop[_task].pc # "ended")]
                    /\ awaited' = awaited \cup {_task}
               ELSE UNCHANGED <<loop, awaited>>
    /\ UNCHANGED <<_task, quiet_mode, fired, running_jobs>>
    /\ UNCHANGED <<builds, news, now, ladder, poll, top, cachev, rot_break_count, liq, fn>>

\* stop() after its await: self._task = None
stop_resume(t) ==
    /\ t \in awaited
    /\ loop[t].pc = "ended"
    /\ awaited' = awaited \ {t}
    /\ _task' = 0
    /\ UNCHANGED <<_running, loop, quiet_mode, fired, running_jobs>>
    /\ UNCHANGED <<builds, news, now, ladder, poll, top, cachev, rot_break_count, liq, fn>>

\* variant: the first fire also waits for the interval
after_interval_sleep(first_run, running) == "sleep"

\* _loop after _get_interval_minutes: where it goes next
after_interval(first_run, running) ==
    IF first_run THEN (IF running THEN "quiet" ELSE "ended") ELSE "sleep"

\* _loop: a task runs from one await to the next.  A task with a cancel
\* request gets CancelledError at its await and ends.
_loop(t) ==
    /\ loop[t].pc \in {"new", "interval", "sleep", "quiet"}
    /\ loop[t].pc = "quiet" /\ ~loop[t].cancel => loop[t].attempts < MaxFires
    /\ LET top_of_loop == IF _running THEN "interval" ELSE "ended"
           fires == ~loop[t].cancel /\ loop[t].pc = "quiet" /\ ~quiet_mode
       IN  /\ loop' = [loop EXCEPT ![t] =
                 IF loop[t].cancel THEN [@ EXCEPT !.pc = "ended"]
                 ELSE IF @.pc = "new" THEN [@ EXCEPT !.pc = top_of_loop]
                 ELSE IF @.pc = "interval"
                      THEN [@ EXCEPT !.pc = after_interval(loop[t].first_run, _running),
                                     !.first_run = FALSE]
                 ELSE IF @.pc = "sleep"
                      THEN [@ EXCEPT !.pc = IF _running THEN "quiet" ELSE "ended",
                                     !.sleeps = @ + 1]
                 ELSE [@ EXCEPT !.pc = top_of_loop, !.attempts = @ + 1]]
           /\ fired' = IF fires THEN fired + 1 ELSE fired
           /\ running_jobs' = IF fires THEN running_jobs + 1 ELSE running_jobs
    /\ UNCHANGED <<_running, _task, awaited, quiet_mode>>
    /\ UNCHANGED <<builds, news, now, ladder, poll, top, cachev, rot_break_count, liq, fn>>

\* the admin surface writes the quiet_mode setting
set_quiet_mode ==
    /\ quiet_mode' = ~quiet_mode
    /\ UNCHANGED <<_running, _task, loop, awaited, fired, running_jobs>>
    /\ UNCHANGED <<builds, news, now, ladder, poll, top, cachev, rot_break_count, liq, fn>>

\* a build the scheduler started finishes
job_done ==
    /\ running_jobs > 0
    /\ running_jobs' = running_jobs - 1
    /\ UNCHANGED <<_running, _task, loop, awaited, quiet_mode, fired>>
    /\ UNCHANGED <<builds, news, now, ladder, poll, top, cachev, rot_break_count, liq, fn>>

SchedSpec ==
    IdleInit
    /\ [][\/ start
          \/ stop
          \/ \E t \in 1..MaxStarts : stop_resume(t)
          \/ \E t \in 1..MaxStarts : _loop(t)
          \/ set_quiet_mode
          \/ job_done]_vars

-----------------------------------------------------------------------------
(* Playout socket client: core/services/liquidsoap_client.py               *)

\* Number of commands written, of connections opened, and of empty lines a
\* caller collects at end of stream, in one behaviour.
MaxCmds == 3
MaxConns == 3
MaxLines == 2

\* variant: `async with _lock` never waits
never_locked(l) == FALSE

\* _lock.locked()
locked(l) == l # 0

\* send_command: a caller runs from one await to the next
send_command(c) ==
    LET me == call[c]
        absent == [me EXCEPT !.pc = "idle", !.lines = <<>>, !.result = "absent"]
        \* the except branch: _writer.close(), both globals None, return None
        error == /\ _writer' = 0
                 /\ stream' = IF _writer = 0 THEN stream
                              ELSE [stream EXCEPT !.closing = TRUE, !.eof = TRUE]
                 /\ call' = [call EXCEPT ![c] = absent]
                 /\ _lock' = 0
                 /\ UNCHANGED <<cmds, conns>>
        reading == [me EXCEPT !.pc = "read", !.cmd = cmds + 1]
    IN  /\ \/ \* async with _lock
              /\ me.pc = "idle"
              /\ ~locked(_lock)
              /\ cmds < MaxCmds
              /\ _lock' = c
              /\ call' = [call EXCEPT ![c] =
                            [pc |-> "locked", cmd |-> 0, lines |-> <<>>, result |-> "none"]]
              /\ UNCHANGED <<_writer, stream, cmds, conns>>
           \/ \* _ensure_connected: _connect succeeds, then write and drain
              /\ me.pc = "locked"
              /\ _writer = 0 \/ stream.closing
              /\ conns < MaxConns
              /\ conns' = conns + 1
              /\ _writer' = conns + 1
              /\ stream' = [id |-> conns + 1, buf |-> <<>>,
                            pending |-> <<[cmd |-> cmds + 1, sent |-> 0]>>,
                            eof |-> FALSE, closing |-> FALSE]
              /\ cmds' = cmds + 1
              /\ call' = [call EXCEPT ![c] = reading]
              /\ UNCHANGED _lock
           \/ \* _ensure_connected: _connect fails, return None
              /\ me.pc = "locked"
              /\ _writer = 0 \/ stream.closing
              /\ _writer' = 0
              /\ call' = [call EXCEPT ![c] = absent]
              /\ _lock' = 0
              /\ UNCHANGED <<stream, cmds, conns>>
           \/ \* write and drain on the open connection
              /\ me.pc = "locked"
              /\ _writer # 0 /\ ~stream.closing
              /\ \/ /\ ~stream.eof
                    /\ stream' = [stream EXCEPT !.pending =
                                    Append(@, [cmd |-> cmds + 1, sent |-> 0])]
                 \/ /\ stream.eof
                    /\ UNCHANGED stream
              /\ cmds' = cmds + 1
              /\ call' = [call EXCEPT ![c] = reading]
              /\ UNCHANGED <<_lock, _writer, conns>>
           \/ \* write or drain raises: the peer has closed the connection
              /\ me.pc = "locked"
              /\ _writer # 0 /\ ~stream.closing
              /\ stream.eof
              /\ error
           \/ \* readline gives a line
              /\ me.pc = "read"
              /\ _writer # 0
              /\ stream.buf # <<>>
              /\ stream' = [stream EXCEPT !.buf = Tail(@)]
              /\ IF Head(stream.buf).last
                 THEN /\ call' = [call EXCEPT ![c] =
                                    [me EXCEPT !.pc = "idle", !.result = "response"]]
                      /\ _lock' = 0
                 ELSE /\ call' = [call EXCEPT ![c] =
                                    [me EXCEPT !.lines = Append(@, Head(stream.buf))]]
                      /\ UNCHANGED _lock
              /\ UNCHANGED <<_writer, cmds, conns>>
           \/ \* readline at the end of the stream gives an empty line, which
              \* is not END: it is collected (MaxLines of them are recorded)
              \* and the loop goes on
              /\ me.pc = "read"
              /\ _writer # 0
              /\ stream.buf = <<>> /\ stream.eof
              /\ call' = [call EXCEPT ![c] =
                            [me EXCEPT !.lines = IF Len(@) < MaxLines
                                                 THEN Append(@, [of |-> 0, last |-> FALSE])
                                                 ELSE @]]
              /\ UNCHANGED <<_lock, _writer, stream, cmds, conns>>
           \/ \* no line within 5 s, or _reader is None after close()
              /\ me.pc = "read"
              /\ _writer = 0 \/ (stream.buf = <<>> /\ ~stream.eof)
              /\ error
        /\ UNCHANGED shutdown
        /\ UNCHANGED <<builds, news, now, ladder, poll, top, cachev, rot_break_count, sched, fn>>

\* the playout process: it answers the oldest command with lines and a line
\* END, or closes the connection
peer ==
    /\ stream.id # 0
    /\ ~stream.eof
    /\ \/ /\ stream.pending # <<>>
          /\ LET p == Head(stream.pending)
             IN  \/ /\ p.sent = 0
                    /\ stream' = [stream EXCEPT
                          !.buf = Append(@, [of |-> p.cmd, last |-> FALSE]),
                          !.pending = <<[p EXCEPT !.sent = 1]>> \o Tail(@)]
                 \/ stream' = [stream EXCEPT
                          !.buf = Append(@, [of |-> p.cmd, last |-> TRUE]),
                          !.pending = Tail(@)]
       \/ stream' = [stream EXCEPT !.eof = TRUE, !.pending = <<>>]
    /\ UNCHANGED <<_lock, _writer, call, shutdown, cmds, conns>>
    /\ UNCHANGED <<builds, news, now, ladder, poll, top, cachev, rot_break_count, sched, fn>>

\* close(): _writer.close() and the wait, then both globals None
close ==
    /\ \/ /\ shutdown = "no"
          /\ IF _writer # 0
             THEN /\ stream' = [stream EXCEPT !.closing = TRUE, !.eof = TRUE]
                  /\ shutdown' = "wait_closed"
             ELSE /\ shutdown' = "done"
                  /\ UNCHANGED stream
          /\ UNCHANGED _writer
       \/ /\ shutdown = "wait_closed"
          /\ _writer' = 0
          /\ shutdown' = "done"
          /\ UNCHANGED stream
    /\ UNCHANGED <<_lock, call, cmds, conns>>
    /\ UNCHANGED <<builds, news, now, ladder, poll, top, cachev, rot_break_count, sched, fn>>

LiqSpec ==
    IdleInit
    /\ [][\/ \E c \in Clients : send_command(c)
          \/ peer
          \/ close]_vars

\* the event loop runs every task that can take a step
LiqLive == LiqSpec /\ \A c \in Clients : WF_vars(send_command(c))

-----------------------------------------------------------------------------
(* Functions that keep no state between calls, one call each                *)

\* tts_router.synthesize with tts_piper, tts_elevenlabs and tts_openai up to
\* their first request: host_row is the host row, table the settings table,
\* OPENAI_API_KEY the configured key, installed the Piper models on disk,
\* works the backends whose own work succeeds.  The result is the backend
\* that answered and the file, "" for None.
synthesize(host_row, table, OPENAI_API_KEY, installed, works) ==
    LET Audio(backend, ok) == [backend |-> backend, path |-> IF ok THEN "mp3" ELSE ""]
        provider == IF host_row.tts_provider = "" THEN "piper" ELSE host_row.tts_provider
        voice_id == IF host_row.tts_voice_id # "" THEN host_row.tts_voice_id ELSE host_row.piper_model
        tts_piper(model_name) ==
            Audio("piper", model_name \in installed /\ "piper" \in works)
        tts_elevenlabs(api_key) ==
            Audio("elevenlabs", api_key # "" /\ voice_id # "" /\ "elevenlabs" \in works)
        tts_openai == Audio("openai", OPENAI_API_KEY # "" /\ "openai" \in works)
    IN  IF provider = "elevenlabs"
        THEN IF table.elevenlabs_api_key = ""
             THEN tts_piper(host_row.piper_model)
             ELSE tts_elevenlabs(table.elevenlabs_api_key)
        ELSE IF provider = "openai"
        THEN tts_openai
        ELSE tts_piper(voice_id)

\* content_filter.py: the limits validate uses when it is given none
DEFAULT_MIN_WORDS == 15
DEFAULT_MAX_WORDS == 100
DEFAULT_MAX_CHARS == 600
DEFAULT_BREAKING_MIN_WORDS == 10
DEFAULT_BREAKING_MAX_WORDS == 50

\* Number of pieces a script under validation is made of.
MaxPieces == 3

\* the characters of a text given by its pieces, sep between two pieces
RECURSIVE Spell(_, _)
Spell(ws, sep) ==
    LET letters(w) ==
            CASE w = "buy" -> <<"b", "u", "y">>
              [] w = "sell" -> <<"s", "e", "l", "l">>
              [] w = "invest" -> <<"i", "n", "v", "e", "s", "t">>
              [] w = "investing" -> <<"i", "n", "v", "e", "s", "t", "i", "n", "g">>
              [] w = "price" -> <<"p", "r", "i", "c", "e">>
              [] w = "target" -> <<"t", "a", "r", "g", "e", "t">>
              [] w = "prediction" -> <<"p", "r", "e", "d", "i", "c", "t", "i", "o", "n">>
              [] w = "click" -> <<"c", "l", "i", "c", "k">>
              [] w = "subscribe" -> <<"s", "u", "b", "s", "c", "r", "i", "b", "e">>
              [] w = "go" -> <<"g", "o">>
              [] w = "to" -> <<"t", "o">>
              [] w = "check" -> <<"c", "h", "e", "c", "k">>
              [] w = "out" -> <<"o", "u", "t">>
              [] w = "breaking" -> <<"b", "r", "e", "a", "k", "i", "n", "g">>
              [] w = "news" -> <<"n", "e", "w", "s">>
              [] w = "http" -> <<"h", "t", "t", "p">>
              [] w = "www." -> <<"w", "w", "w", ".">>
              [] w = ".com" -> <<".", "c", "o", "m">>
              [] w = ".org" -> <<".", "o", "r", "g">>
              [] w = ".net" -> <<".", "n", "e", "t">>
              [] w = "igation" -> <<"i", "g", "a", "t", "i", "o", "n">>
              [] w = "Ok" -> <<"O", "k">>
              [] w = "_" -> <<"_">>
              [] w = " " -> <<" ">>
    IN  IF ws = << >> THEN << >>
        ELSE IF Len(ws) = 1 THEN letters(ws[1])
        ELSE letters(ws[1]) \o sep \o Spell(Tail(ws), sep)

\* variant: \b matches everywhere
any_position(text, k) == TRUE

\* the regex \b between text[k] and text[k + 1]: a word character on
\* exactly one side
word_boundary(text, k) ==
    LET w(i) == i \in 1..Len(text) /\ text[i] \notin {" ", "."}
    IN  w(k) # w(k + 1)

\* content_filter.validate, chars being the characters of the script; a limit is
\* [given |-> FALSE] for None
content_filter_validate(chars, is_brk, min_words, max_words, max_chars) ==
    LET words == {i \in 1..Len(chars) : chars[i] # " " /\ (i = 1 \/ chars[i - 1] = " ")}
        min_w == IF min_words.given THEN min_words.v
                 ELSE IF is_brk THEN DEFAULT_BREAKING_MIN_WORDS ELSE DEFAULT_MIN_WORDS
        max_w == IF max_words.given THEN max_words.v
                 ELSE IF is_brk THEN DEFAULT_BREAKING_MAX_WORDS ELSE DEFAULT_MAX_WORDS
        max_c == IF max_chars.given THEN max_chars.v ELSE DEFAULT_MAX_CHARS
        lower == [i \in 1..Len(chars) |-> IF chars[i] = "O" THEN "o" ELSE chars[i]]
        phrases == SelectSeq(BLOCKED_PHRASES,
                             LAMBDA q : ~(is_brk /\ q = <<"breaking", "news">>))
        at(t, i) == i + Len(t) <= Len(lower) /\ SubSeq(lower, i + 1, i + Len(t)) = t
        search(t) == \E i \in 0..Len(lower) :
                        at(t, i) /\ word_boundary(lower, i) /\ word_boundary(lower, i + Len(t))
    IN  IF \A i \in 1..Len(chars) : chars[i] = " "
        THEN [ok |-> FALSE, reason |-> "empty chars"]
        ELSE IF Cardinality(words) < min_w THEN [ok |-> FALSE, reason |-> "too short"]
        ELSE IF Cardinality(words) > max_w THEN [ok |-> FALSE, reason |-> "too long"]
        ELSE IF Len(chars) > max_c THEN [ok |-> FALSE, reason |-> "exceeds chars"]
        ELSE IF \E n \in 1..Len(phrases) : search(Spell(phrases[n], <<" ">>))
             THEN [ok |-> FALSE, reason |-> "blocked word"]
        ELSE IF \E n \in 1..Len(BLOCKED_SUBSTRINGS) :
                   \E i \in 0..Len(lower) : at(Spell(<<BLOCKED_SUBSTRINGS[n]>>, << >>), i)
             THEN [ok |-> FALSE, reason |-> "blocked pattern"]
        ELSE [ok |-> TRUE, reason |-> "ok"]

\* visual/config.py: the director's constants; the three probabilities are
\* in percent
WIDE_SHOT_DURATION_S == 2
REACTION_PROBABILITY == 20
REACTION_MIN_MS == 1500
REACTION_MAX_MS == 3000
WIDE_SHOT_MIN_MS == 2000
WIDE_SHOT_MAX_MS == 4000
WIDE_SHOT_INTERVAL == 4
RAPID_EXCHANGE_MS == 2000
TRANSITION_CUT == 85
TRANSITION_DISSOLVE == 10

\* Length of the sequence of random draws that a call of generate_edl
\* reads, cyclically, and number of lines of a script with every kind of line.
TapeLen == 2
MaxEdlLines == 2

\* variant: the inserted shot is a second longer
randint_long(a, b, u) == b + 1000

\* random.randint(a, b) for a draw u of 0..99
randint(a, b, u) == a + ((b - a) * u) \div 99

\* variant: no exchange counts as rapid
never_rapid(current_line, prev_line) == FALSE

\* _is_rapid_exchange; the character of prev_line is "" for None
_is_rapid_exchange(current_line, prev_line) ==
    /\ prev_line.character # ""
    /\ current_line.character # prev_line.character
    /\ prev_line.duration_ms <= RAPID_EXCHANGE_MS

\* generate_edl: show is the script, tape the draws of the random module in
\* the order the call makes them.  A segment has "" for None.
generate_edl(show, tape) ==
    LET characters == show.characters
        draw(k) == tape[(k % Len(tape)) + 1]
        _pick_transition(k) ==
            IF draw(k) < TRANSITION_CUT THEN "cut"
            ELSE IF draw(k) < TRANSITION_CUT + TRANSITION_DISSOLVE THEN "dissolve"
            ELSE "fade_black"
        _closeup_shot_type(c) ==
            IF Len(characters) < 2 THEN "closeup_left"
            ELSE IF c \notin Range(characters) \/ characters[1] = c THEN "closeup_left"
            ELSE "closeup_right"
        wide(duration_ms, transition) ==
            [shot_type |-> "wide", characters |-> characters, speaker |-> "",
             audio_path |-> "", duration_ms |-> duration_ms, transition |-> transition,
             listener |-> ""]
        RECURSIVE lines_loop(_, _)
        lines_loop(lines, st) ==
            IF lines = << >> THEN st
            ELSE IF Head(lines).duration_ms <= 0 THEN lines_loop(Tail(lines), st)
            ELSE
            LET line == Head(lines)
                hint == line.camera_hint
                rapid == hint = "" /\ _is_rapid_exchange(line, st.prev_line)
                insert == /\ hint = ""
                          /\ ~rapid
                          /\ st.lines_since_wide >= WIDE_SHOT_INTERVAL
                shot_type ==
                    IF hint # ""
                    THEN IF hint = "twoshot" THEN "twoshot"
                         ELSE IF hint = "wide" THEN "wide"
                         ELSE _closeup_shot_type(line.character)
                    ELSE IF rapid THEN "twoshot"
                    ELSE _closeup_shot_type(line.character)
                inserted ==
                    IF insert
                    THEN <<wide(randint(WIDE_SHOT_MIN_MS, WIDE_SHOT_MAX_MS, draw(st.k)),
                                _pick_transition(st.k + 1))>>
                    ELSE << >>
                k1 == IF insert THEN st.k + 2 ELSE st.k
                lines_since_wide ==
                    IF shot_type = "wide" THEN 0
                    ELSE (IF insert THEN 0 ELSE st.lines_since_wide) + 1
                spoken_segment ==
                    [shot_type |-> shot_type,
                     characters |-> IF shot_type \in {"wide", "twoshot"} THEN characters
                                    ELSE <<line.character>>,
                     speaker |-> line.character, audio_path |-> line.audio_path,
                     duration_ms |-> line.duration_ms, transition |-> _pick_transition(k1),
                     listener |-> ""]
                k2 == k1 + 1
                \* _should_insert_reaction draws only for a long line of a
                \* script with two characters or more
                long_line == Len(characters) >= 2 /\ ~(line.duration_ms < 3000)
                k3 == IF long_line THEN k2 + 1 ELSE k2
                others == SelectSeq(characters, LAMBDA c : c # line.character)
                reacts == long_line /\ draw(k2) < REACTION_PROBABILITY /\ others # << >>
                listener == others[1 + (Len(others) * draw(k3)) \div 100]
                \* after the listener: the duration and the emotion
                reaction ==
                    IF reacts
                    THEN <<[shot_type |-> _closeup_shot_type(listener),
                            characters |-> <<listener>>, speaker |-> "", audio_path |-> "",
                            duration_ms |-> randint(REACTION_MIN_MS, REACTION_MAX_MS,
                                                    draw(k3 + 1)),
                            transition |-> "cut", listener |-> listener]>>
                    ELSE << >>
                k4 == IF reacts THEN k3 + 3 ELSE k3
            IN  lines_loop(Tail(lines),
                           [segments |-> st.segments \o inserted \o <<spoken_segment>>
                                           \o reaction,
                            k |-> k4, lines_since_wide |-> lines_since_wide,
                            prev_line |-> line])
        RECURSIVE scenes_loop(_, _, _)
        scenes_loop(scenes, st, is_first_scene) ==
            IF scenes = << >> THEN st.segments
            ELSE LET opening == wide(WIDE_SHOT_DURATION_S * 1000,
                                     IF is_first_scene THEN "fade_black"
                                     ELSE _pick_transition(st.k))
                     after == lines_loop(Head(scenes),
                                 [segments |-> st.segments \o <<opening>>,
                                  k |-> IF is_first_scene THEN st.k ELSE st.k + 1,
                                  lines_since_wide |-> 0,
                                  prev_line |-> [character |-> ""]])
                 IN  scenes_loop(Tail(scenes), after, FALSE)
    IN  scenes_loop(show.scenes, [segments |-> << >>, k |-> 0], TRUE)

\* visual/config.py: flips shorter than this are smoothed away
RMS_SMOOTHING_FRAMES == 2

\* Number of frames of a mask.
MaxFrames == 6

\* audio_analysis._smooth
_smooth(frames, min_run) ==
    LET RECURSIVE runs(_, _)
        \* the while loop, result[i] being the first frame of the current run
        runs(result, i) ==
            IF ~(i <= Len(result)) THEN result
            ELSE LET same == {n \in i..Len(result) :
                                \A x \in i..n : result[x] = result[i]}
                     j == i + Cardinality(same)
                     run_len == j - i
                 IN  IF run_len < min_run /\ i > 1
                     THEN runs([x \in 1..Len(result) |->
                                  IF i <= x /\ x < j THEN result[i - 1] ELSE result[x]], j)
                     ELSE runs(result, j)
    IN  IF Len(frames) < 3 \/ min_run < 1 THEN frames ELSE runs(frames, 1)

\* break_builder.py:82, the limit of get_recent_unscored; llm.py:50, the
\* headlines score_headlines puts into its request
UNSCORED_LIMIT == 20
SCORER_LIMIT == 12

MaxNews == 21
MaxReply == 2

\* break_builder.py lines 81-95 with llm.score_headlines and news.mark_scored.
\* rows is the number of unscored rows of cache_news, numbered from 1 by
\* fetched_at DESC; reply is the list the scorer's answer parses to, index -1
\* and score 0 standing for an item without the key (s.get("index", -1),
\* s.get("score", 0)).  The value is the headlines sent and the rows after
\* the loop over the reply.
score_unscored(rows, reply) ==
    LET unscored == IF rows < UNSCORED_LIMIT THEN rows ELSE UNSCORED_LIMIT
        headlines_sent == IF unscored < SCORER_LIMIT THEN unscored ELSE SCORER_LIMIT
        scores == IF unscored = 0 THEN << >> ELSE reply
        RECURSIVE mark_loop(_, _)
        mark_loop(cache, k) ==
            IF k > Len(scores) THEN cache
            ELSE LET idx == scores[k].index
                 IN  IF 0 <= idx /\ idx < unscored
                     THEN mark_loop([cache EXCEPT ![idx + 1] =
                                       [scored |-> TRUE, score |-> scores[k].score]],
                                    k + 1)
                     ELSE mark_loop(cache, k + 1)
    IN  [sent |-> headlines_sent,
         cache |-> mark_loop([n \in 1..rows |-> [scored |-> FALSE, score |-> 0]], 1)]

\* the call returns
Call ==
    /\ ~ret.done
    /\ ret' = [done |-> TRUE,
               value |-> CASE args.fn = "synthesize" ->
                              synthesize(args.host, args.settings, args.OPENAI_API_KEY,
                                         args.installed, args.works)
                            [] args.fn = "validate" ->
                              content_filter_validate(args.script, args.is_breaking,
                                  args.min_words, args.max_words, args.max_chars)
                            [] args.fn = "generate_edl" ->
                              generate_edl(args.script, args.tape)
                            [] args.fn = "_smooth" ->
                              _smooth(args.frames, RMS_SMOOTHING_FRAMES)
                            [] args.fn = "score_unscored" ->
                              score_unscored(args.rows, args.reply)]
    /\ UNCHANGED args
    /\ UNCHANGED <<builds, news, now, ladder, poll, top, cachev, rot_break_count, sched, liq>>

\* a call of one of the functions, with any arguments
StatelessInit ==
    /\ BuildsIdle
    /\ OthersIdle
    /\ ret = [done |-> FALSE]
    /\ args \in
         [fn : {"synthesize"},
          host : [tts_provider : {"", "piper", "elevenlabs", "openai"},
                  tts_voice_id : {"", "nova"},
                  piper_model : {"", "lessac"}],
          settings : [elevenlabs_api_key : {"", "xi"}],
          OPENAI_API_KEY : {"", "sk"},
          installed : SUBSET {"lessac"},
          works : SUBSET {"piper", "elevenlabs", "openai"}]
         \cup
         [fn : {"validate"},
          script : {Spell(q, << >>) :
                      q \in UNION {[1..n -> {" ", "buy", "invest", "igation", "go", "to",
                                             "breaking", "news", ".com", "_", "Ok"}] :
                                     n \in 0..MaxPieces}},
          is_breaking : BOOLEAN,
          min_words : {[given |-> FALSE], [given |-> TRUE, v |-> 0], [given |-> TRUE, v |-> 2]},
          max_words : {[given |-> FALSE], [given |-> TRUE, v |-> 2]},
          max_chars : {[given |-> FALSE], [given |-> TRUE, v |-> 10]}]
         \cup
         [fn : {"_smooth"},
          frames : UNION {[1..n -> BOOLEAN] : n \in 0..MaxFrames}]
         \cup
         \* replies that name the first and the last headline sent, the first
         \* one not sent, the last and the one after the last of the batch
         [fn : {"score_unscored"},
          rows : 0..MaxNews,
          reply : UNION {[1..n -> [index : {-1, 0, 1, SCORER_LIMIT - 1, SCORER_LIMIT,
                                            UNSCORED_LIMIT - 1, UNSCORED_LIMIT},
                                   score : {0, 4, 7}]] :
                           n \in 0..MaxReply}]
         \cup
         \* scripts of up to two scenes with lines of every kind, and scripts
         \* of one scene long enough for a wide to be inserted
         LET DialogLine(durations, hints) ==
                 [character : {"alex", "maya"}, audio_path : {"line.mp3"},
                  duration_ms : durations, camera_hint : hints]
             any == DialogLine({0, 2000, 3000, 3500}, {"", "wide", "closeup", "twoshot"})
             plain == DialogLine({3500}, {""})
             short == DialogLine({2000, 3500}, {""})
             Scene(n) == [1..n -> any]
             few == {<< >>}
                    \cup UNION {{<<a>> : a \in Scene(n)} : n \in 0..MaxEdlLines}
                    \cup UNION {UNION {{<<a, b>> : a \in Scene(n), b \in Scene(m)} :
                                         m \in 0..(MaxEdlLines - n)} :
                                  n \in 0..MaxEdlLines}
             long == {<<l \o <<m, n>> >> :
                        l \in [1..(WIDE_SHOT_INTERVAL - 1) -> plain], m \in short, n \in any}
         IN  [fn : {"generate_edl"},
              script : [characters : {<<"alex">>, <<"alex", "maya">>}, scenes : few]
                       \cup [characters : {<<"alex", "maya">>}, scenes : long],
              tape : [1..TapeLen -> {0, 50, 90, 99}]]

StatelessSpec == StatelessInit /\ [][Call]_vars

-----------------------------------------------------------------------------
(* Properties of prepare_break *)

\* C1: at every moment at most one scheduled (non-breaking) break_queue
\* entry is in status PREPARING, under any interleaving of builds.
C1_OneScheduledPreparing ==
    Cardinality({i \in Ids : /\ break_queue[i].status = "PREPARING"
                             /\ break_queue[i].type = "scheduled"}) <= 1

\* C2: the only status changes of an entry are its insertion as PREPARING,
\* PREPARING -> READY, PREPARING -> FAILED and READY -> PLAYED; PLAYED and
\* FAILED are never left, under builds, exceptions in a build and restarts.
C2_Lifecycle ==
    [][\A i \in Ids :
         break_queue'[i].status # break_queue[i].status =>
           <<break_queue[i].status, break_queue'[i].status>> \in
               { <<"ABSENT", "PREPARING">>, <<"PREPARING", "READY">>,
                 <<"PREPARING", "FAILED">>, <<"READY", "PLAYED">> }]_vars

\* C3: when the LM writer returned a script, the validator accepted it and
\* synthesis returned audio, the entry is marked READY with that script, that
\* audio and degradation_level 0, and the level stays 0 whatever the push does.
C3_CleanBuildLevel0 ==
    /\ \A b \in Builds :
         (/\ pc[b] = "inject"
          /\ script[b] \in LLMOutputs \ {""}
          /\ script[b] \in accepted[b]
          /\ audio_path[b] \in {MP3, COMBINED})
         => /\ break_queue[break_id[b]].status = "READY"
            /\ break_queue[break_id[b]].degradation_level = 0
            /\ break_queue[break_id[b]].script_text = script[b]
            /\ break_queue[break_id[b]].audio_path = audio_path[b]
    /\ \A i \in Ids :
         (/\ break_queue[i].status # "ABSENT"
          /\ break_queue[i].script_text \in LLMOutputs \ {""}
          /\ break_queue[i].audio_path \in {MP3, COMBINED})
         => /\ break_queue[i].status \in {"READY", "PLAYED"}
            /\ break_queue[i].degradation_level = 0

C3_Witness ==
    \E b \in Builds :
      /\ pc[b] = "inject"
      /\ script[b] = "s_ok"
      /\ script[b] \in accepted[b]
      /\ audio_path[b] = MP3
      /\ break_queue[break_id[b]].status = "READY"
      /\ break_queue[break_id[b]].degradation_level = 0

\* C4: when the LM write, the validator or the synthesis fails and the sting
\* file exists, the entry is not marked FAILED by that stage.
C4_StingPreventsFailed ==
    \A i \in Ids :
      (/\ break_queue[i].status = "FAILED"
       /\ break_queue[i].meta \in {"all fallbacks exhausted", "filter",
                                   "TTS failed, no sting"})
      => ~stingExists

\* C5: every text a build passes to speech synthesis was accepted by
\* content_filter.validate in that build.
C5_SpokenWasAccepted ==
    \A b \in Builds : spoken[b] \subseteq accepted[b]

\* C6: a fallback script that the validator would reject under the bounds of
\* the build is never the script of a READY or PLAYED entry.
C6_InvalidFallbackNeverReady ==
    \A i \in Ids :
      (/\ break_queue[i].status \in {"READY", "PLAYED"}
       /\ break_queue[i].script_text \in {FilledId(t) : t \in TemplateIds})
      => \E btc \in BOOLEAN :
           validate(break_queue[i].script_text, break_queue[i].type = "breaking",
                    s_min_w(break_queue[i].type = "breaking"),
                    s_max_w(break_queue[i].type = "breaking", btc), s_max_c).ok

\* C7: a build that marked its entry READY has sent breaks.push for the
\* entry's audio path and then the counter reset, and the entry is PLAYED
\* exactly when the push succeeded.
C7_PushResetPlayed ==
    \A b \in Builds :
      (/\ pc[b] = "done"
       /\ break_queue[break_id[b]].status \in {"READY", "PLAYED"})
      => /\ Len(sent[break_id[b]]) = 2
         /\ sent[break_id[b]][1].cmd = "breaks.push"
         /\ sent[break_id[b]][1].arg = break_queue[break_id[b]].audio_path
         /\ sent[break_id[b]][2].cmd = "hermes.reset_counter"
         /\ (break_queue[break_id[b]].status = "PLAYED") <=> sent[break_id[b]][1].ok

\* C8: the build of an entry that is FAILED sent no breaks.push, on every
\* failure path including an exception caught at the top of the build.
C8_FailedNeverPushed ==
    \A i \in Ids :
      break_queue[i].status = "FAILED" =>
        \A k \in 1..Len(sent[i]) : sent[i][k].cmd # "breaks.push"

\* C9: a non-breaking call made while some entry is PREPARING returns at the
\* gate: its step changes no table and sends no command, and the returned
\* task takes no further step.
C9_GateReturns ==
    [][\A b \in Builds :
         /\ (/\ pc[b] = "idle"
             /\ pc'[b] # "idle"
             /\ ~is_breaking'[b]
             /\ \E i \in Ids : break_queue[i].status = "PREPARING")
            => /\ pc'[b] = "skipped"
               /\ UNCHANGED <<break_queue, host_rotation, templates, sent, events_log>>
         /\ pc[b] = "skipped" => pc'[b] = "skipped"]_vars

C9_Witness ==
    \E b \in Builds :
      /\ pc[b] = "skipped"
      /\ ~is_breaking[b]
      /\ break_queue[break_id[b]].status = "ABSENT"
      /\ \E i \in Ids : break_queue[i].status = "PREPARING"

\* C10: a breaking call passes the gate whatever the queue holds, takes the
\* enabled host flagged is_breaking_host whatever the rotation's parity, and
\* inserts an entry of type 'breaking' with priority 10 and that host.
C10_BreakingBypass ==
    [][\A b \in Builds :
         is_breaking'[b] =>
           LET cand == {h \in HostIds : hosts[h].is_breaking_host /\ hosts[h].enabled}
           IN  /\ (pc[b] = "idle" /\ pc'[b] # "idle") => pc'[b] = "host"
               /\ (pc[b] = "host" /\ pc'[b] # "host") =>
                     /\ host_rotation' = host_rotation
                     /\ IF cand = {} THEN pc'[b] = "nohost"
                        ELSE pc'[b] = "create" /\ host'[b] \in cand
               /\ (pc[b] = "create" /\ pc'[b] = "build") =>
                     /\ break_queue[break_id[b]].status = "ABSENT"
                     /\ break_queue'[break_id[b]].status = "PREPARING"
                     /\ break_queue'[break_id[b]].type = "breaking"
                     /\ break_queue'[break_id[b]].priority = 10
                     /\ break_queue'[break_id[b]].host_id \in cand]_vars

C10_Witness ==
    \E i \in Ids, j \in Ids :
      /\ i < j
      /\ break_queue[i].status = "PREPARING"
      /\ break_queue[i].type = "scheduled"
      /\ break_queue[j].status = "PREPARING"
      /\ break_queue[j].type = "breaking"
      /\ break_queue[j].priority = 10
      /\ break_queue[j].host_id = "host_b"
      /\ hosts["host_b"].is_breaking_host
      /\ host_rotation.break_count % 2 = 0


\* C12: when the LM writer returns nothing while two weather cities and a
\* stored template are available, the build takes the filled template as its
\* script at level 2, keeps both through the filter and the synthesis, marks
\* the entry READY with them, and the entry is PLAYED at level 2 once the push
\* succeeded.
C12_TemplateBreakPlayed ==
    [][\A b \in Builds :
         LET Filled == {FilledId(t) : t \in TemplateIds}
         IN  /\ (/\ pc[b] = "fallback" /\ pc'[b] # "fallback"
                 /\ weather_data[b] >= 2 /\ DOMAIN templates # {})
                => /\ pc'[b] = "filter"
                   /\ deg_level'[b] = 2
                   /\ script'[b] \in Filled
             /\ (pc[b] = "filter" /\ pc'[b] # "filter" /\ deg_level[b] = 2)
                => /\ pc'[b] = "tts"
                   /\ deg_level'[b] = 2
                   /\ script'[b] \in Filled
             /\ (pc[b] = "tts" /\ pc'[b] = "commit" /\ deg_level[b] = 2)
                => /\ deg_level'[b] = 2
                   /\ script'[b] = script[b]
             /\ (pc[b] = "commit" /\ pc'[b] = "inject" /\ deg_level[b] = 2)
                => /\ break_queue'[break_id[b]].status = "READY"
                   /\ break_queue'[break_id[b]].degradation_level = 2
                   /\ break_queue'[break_id[b]].script_text = script[b]
                   /\ script[b] \in Filled
             /\ (/\ pc[b] = "inject" /\ pc'[b] = "done" /\ deg_level[b] = 2
                 /\ sent'[break_id[b]][1].ok)
                => /\ break_queue'[break_id[b]].status = "PLAYED"
                   /\ break_queue'[break_id[b]].degradation_level = 2
                   /\ break_queue'[break_id[b]].script_text \in Filled]_vars

C12_Witness ==
    \E b \in Builds :
      /\ pc[b] = "inject"
      /\ deg_level[b] = 2
      /\ script[b] = "f_long"
      /\ script[b] \in accepted[b]
      /\ break_queue[break_id[b]].status = "READY"
      /\ break_queue[break_id[b]].degradation_level = 2
      /\ break_queue[break_id[b]].script_text = "f_long"

\* C13: a build that fell to the sting after the LM writer returned nothing
\* (empty script_text, level 3) has pushed the sting, and its entry is PLAYED
\* once that push succeeded.
C13_LmStingPlayed ==
    \A b \in Builds :
      (/\ pc[b] = "done"
       /\ break_queue[break_id[b]].status \in {"READY", "PLAYED"}
       /\ break_queue[break_id[b]].degradation_level = 3
       /\ break_queue[break_id[b]].script_text = "")
      => /\ Len(sent[break_id[b]]) >= 1
         /\ sent[break_id[b]][1].cmd = "breaks.push"
         /\ sent[break_id[b]][1].arg = STING
         /\ sent[break_id[b]][1].ok => break_queue[break_id[b]].status = "PLAYED"

\* C14: when the LM writer returns nothing, no template can be filled and
\* there is no sting, the build ends with its entry FAILED with reason
\* "all fallbacks exhausted", exactly one event, a break_failed, and no
\* command sent; a build that has ended changes none of these.
C14_AllFallbacksExhausted ==
    [][\A b \in Builds :
         /\ (/\ pc[b] = "fallback" /\ pc'[b] # "fallback"
             /\ (weather_data[b] < 2 \/ DOMAIN templates = {})
             /\ ~stingExists)
            => /\ pc'[b] = "done"
               /\ break_queue'[break_id[b]].status = "FAILED"
               /\ break_queue'[break_id[b]].meta = "all fallbacks exhausted"
               /\ Len(events_log'[break_id[b]]) = 1
               /\ events_log'[break_id[b]][1].event_type = "break_failed"
               /\ sent'[break_id[b]] = << >>
         /\ pc[b] = "done"
            => /\ pc'[b] = "done"
               /\ break_queue'[break_id[b]] = break_queue[break_id[b]]
               /\ events_log'[break_id[b]] = events_log[break_id[b]]
               /\ sent'[break_id[b]] = sent[break_id[b]]]_vars

C14_Witness ==
    \E b \in Builds :
      /\ pc[b] = "done"
      /\ ~stingExists
      /\ break_queue[break_id[b]].status = "FAILED"
      /\ break_queue[break_id[b]].meta = "all fallbacks exhausted"
      /\ sent[break_id[b]] = << >>

\* C15: every READY or PLAYED entry at level 3 has empty script_text.
C15_StingEntryEmptyScript ==
    \A i \in Ids :
      (/\ break_queue[i].status \in {"READY", "PLAYED"}
       /\ break_queue[i].degradation_level = 3)
      => break_queue[i].script_text = ""

C19_NeverRaises ==
    \A b \in Builds : pc[b] # "raised"

-----------------------------------------------------------------------------
(* Properties of the news pipeline *)

C20_FeedHealthRules ==
    [][\A s \in SourceIds :
         /\ IF news_pc = "fetch" /\ Sources[feed_i] = s /\ Pollable(s)
            THEN \/ /\ streak'[s] = 0
                    /\ feed_health'[s].status = "healthy"
                    /\ feed_health'[s].consecutive_failures = 0
                 \/ /\ streak'[s] = streak[s] + 1
                    /\ feed_health'[s].consecutive_failures =
                         feed_health[s].consecutive_failures + 1
                    /\ feed_health'[s].status =
                         IF feed_health'[s].consecutive_failures >= 5
                         THEN "dead" ELSE "unhealthy"
            ELSE feed_health'[s] = feed_health[s] /\ streak'[s] = streak[s]
         /\ streak'[s] >= 5 => feed_health'[s].status = "dead"]_vars

C20_Witness ==
    \E s \in SourceIds, u \in SourceIds :
      /\ streak[s] = 5
      /\ feed_health[s].status = "dead"
      /\ feed_health[s].consecutive_failures = 5
      /\ feed_health[u].status = "healthy"
      /\ run > 5

-----------------------------------------------------------------------------
(* Properties of the fallback ladder *)

\* C16: the template whose use_count get_fallback_script increments is the
\* least recently used one (no template has an older last use), and its
\* use_count grows by exactly one.
C16_LeastRecentlyUsed ==
    [][\A t \in DOMAIN templates :
         templates'[t] # templates[t] =>
           /\ templates'[t] = templates[t] + 1
           /\ \A u \in DOMAIN templates : last_used_at[t] <= last_used_at[u]]_vars

-----------------------------------------------------------------------------
(* Properties of overlapping poll cycles *)

\* C21: fetch_all_feeds never polls a source that is dead or disabled, and
\* the feed_health row of a dead source is not changed by any poll.
C21_DeadNotPolled ==
    [][/\ \A p \in Pollers :
            (poll_pc[p] = "get" /\ poll_pc'[p] # "get") => Pollable(Head(poll_list[p]))
       /\ \A s \in SourceIds :
            ~Pollable(s) => feed_health'[s] = feed_health[s]]_vars

\* C22: cache_news never holds two rows with one id, and when a poll has
\* handled an entry whose sanitized title is not empty, by the dedup SELECT
\* or by the INSERT, the table holds exactly one row with the id made of the
\* source and the hash of the lowercased, trimmed title; this for every
\* number of polls, in one cycle or several, overlapping or not.
C22_OneRowPerHeadline ==
    /\ [](\A i \in DOMAIN news_rows : news_rows[i] <= 1)
    /\ [][\A p \in Pollers :
            (/\ poll_pc[p] \in {"entries", "insert"}
             /\ poll_todo[p] # << >>
             /\ poll_todo'[p] = Tail(poll_todo[p])
             /\ _sanitize(Head(poll_todo[p]), 200) # << >>)
            => news_rows'[news_id(Head(poll_list[p]),
                                  _sanitize(Head(poll_todo[p]), 200))] = 1]_vars

\* two overlapping first cycles have both handled the page of src_a that
\* carries one headline twice, in different spellings
C22_Witness ==
    /\ cycles = 2
    /\ \A p \in Pollers :
         /\ poll_pc[p] = "entries"
         /\ poll_todo[p] = << >>
         /\ Head(poll_list[p]) = "src_a"
    /\ news_rows[<<"src_a", <<"r", "a">> >>] = 1
    /\ news_rows[<<"src_a", <<"s", "u">> >>] = 0

-----------------------------------------------------------------------------
(* Properties of get_top_headlines *)

\* C23: the list R get_top_headlines(limit, exclude_ids) returns has no
\* duplicates; its length is the smaller of limit and the number of eligible
\* headlines (scored, score at least 4, fetched within the last
\* dedupe window minutes); it holds an excluded id only when fewer than limit
\* eligible headlines are not excluded; and its part that is not excluded
\* comes first, ordered by score descending then fetched_at descending.
C23_TopHeadlinesList ==
    news_pc = "built" =>
      LET R == headlines
          eligible == {n \in NewsIds : /\ cache_news[n].present
                                        /\ cache_news[n].scored
                                        /\ cache_news[n].score >= 4
                                        /\ cache_news[n].fetched_at > now - news_dedupe_window_minutes
                                        /\ cache_news[n].fetched_at <= now}
          prefix == SelectSeq(R, LAMBDA n : n \notin arg_exclude)
      IN  /\ \A i \in 1..Len(R), j \in 1..Len(R) : i # j => R[i] # R[j]
          /\ Len(R) = (IF Cardinality(eligible) < arg_limit THEN Cardinality(eligible) ELSE arg_limit)
          /\ (\E i \in 1..Len(R) : R[i] \in arg_exclude)
               => Cardinality(eligible \ arg_exclude) < arg_limit
          /\ SubSeq(R, 1, Len(prefix)) = prefix
          /\ \A i \in 1..Len(prefix), j \in 1..Len(prefix) :
               i < j => \/ cache_news[prefix[i]].score > cache_news[prefix[j]].score
                        \/ /\ cache_news[prefix[i]].score = cache_news[prefix[j]].score
                           /\ cache_news[prefix[i]].fetched_at >= cache_news[prefix[j]].fetched_at

\* C24: every headline get_top_headlines returns is scored, has a score of
\* at least 4 and was fetched within the last dedupe window minutes before
\* the call.
C24_ReturnedWithinWindow ==
    news_pc = "built" =>
      \A i \in 1..Len(headlines) :
        /\ cache_news[headlines[i]].scored
        /\ cache_news[headlines[i]].score >= 4
        /\ cache_news[headlines[i]].fetched_at > now - news_dedupe_window_minutes
        /\ cache_news[headlines[i]].fetched_at <= now

\* C25: when fewer than 3 eligible headlines are outside the ids used in
\* the last 2 breaks, the headlines of the build are all of those, followed
\* by eligible headlines of the last 2 breaks up to 3 in all, and every
\* headline of the last 2 breaks among them is tagged previously_reported.
C25_BackfillTagged ==
    news_pc = "built" =>
      LET used == get_recent_headline_ids(recent, 2)
          eligible == {n \in NewsIds : /\ cache_news[n].present
                                        /\ cache_news[n].scored
                                        /\ cache_news[n].score >= 4
                                        /\ cache_news[n].fetched_at > now - news_dedupe_window_minutes
                                        /\ cache_news[n].fetched_at <= now}
          fresh == eligible \ used
      IN  Cardinality(fresh) < 3 =>
            /\ Len(headlines) = (IF Cardinality(eligible) < 3 THEN Cardinality(eligible) ELSE 3)
            /\ {headlines[i] : i \in 1..Cardinality(fresh)} = fresh
            /\ \A i \in (Cardinality(fresh) + 1)..Len(headlines) :
                 headlines[i] \in (eligible \cap used) \cap tagged

-----------------------------------------------------------------------------
(* Properties of the weather and market caches *)

\* C26: a read of an entry that is live (now < expires_at) returns the stored
\* payload, not stale, without a fetch and without changing the table; any
\* other read attempts a fetch.  A successful fetch replaces the entry by
\* the fresh payload with expires_at = now + TTL (10 minutes for weather, 5
\* for the market) and returns the fresh payload, not stale; a failed fetch
\* leaves the table unchanged and returns the expired payload the read
\* selected, marked stale, or nothing when it selected none.  A returned
\* payload is marked stale only after a failed fetch over an expired entry.
C26_CacheRead ==
    /\ [][\A r \in Readers :
            /\ (reader[r].pc = "idle" /\ reader'[r].pc # "idle") =>
                 LET e == cache_rows[reader'[r].key]
                 IN  IF e.present /\ now < e.expires_at
                     THEN /\ reader'[r].pc = "done"
                          /\ ~reader'[r].fetched
                          /\ reader'[r].result =
                                [present |-> TRUE, payload |-> e.payload, stale |-> FALSE]
                          /\ cache_rows' = cache_rows
                     ELSE reader'[r].pc = "fetch"
            /\ (reader[r].pc = "fetch" /\ reader'[r].pc = "done") =>
                 LET k == reader[r].key
                     res == reader'[r].result
                 IN  \/ /\ res = [present |-> TRUE, payload |-> now, stale |-> FALSE]
                        /\ cache_rows' = [cache_rows EXCEPT ![k] =
                              [present |-> TRUE, payload |-> now,
                               expires_at |-> now + (IF k = "btc" THEN 5 ELSE 10)]]
                     \/ /\ cache_rows' = cache_rows
                        /\ res = IF reader[r].row.present
                                 THEN [present |-> TRUE, payload |-> reader[r].row.payload,
                                       stale |-> TRUE]
                                 ELSE [present |-> FALSE]]_vars
    /\ [](\A r \in Readers :
            (reader[r].result.present /\ reader[r].result.stale) =>
              /\ reader[r].fetched
              /\ reader[r].row.present
              /\ reader[r].row.expires_at <= now
              /\ reader[r].result.payload = reader[r].row.payload)

\* one read has returned the expired market payload marked stale and left
\* the entry as it was, another has been served the live weather entry
C26_Witness ==
    \E r \in Readers, q \in Readers :
      /\ reader[r].pc = "done"
      /\ reader[r].key = "btc"
      /\ reader[r].result.present
      /\ reader[r].result.stale
      /\ cache_rows["btc"] = reader[r].row
      /\ reader[q].pc = "done"
      /\ reader[q].key = "city"
      /\ ~reader[q].fetched
      /\ reader[q].result.present
      /\ reader[q].result.payload < now

-----------------------------------------------------------------------------
(* Properties of the host rotation *)

\* C27: when get_next_host selects a host for a scheduled build, the host is
\* host_b if break_count + 1 is odd and host_a if it is even, or any enabled
\* host when that one is disabled; the selection stores the host in
\* last_host_id and increases break_count by one; and with both hosts
\* enabled the host differs from the one selected before it.
C27_HostsAlternate ==
    [][\A b \in Builds :
         (~is_breaking[b] /\ pc[b] \in {"host", "rotate"} /\ pc'[b] = "create") =>
           LET n == host_rotation.break_count + 1
               wanted == IF n % 2 = 1 THEN "host_b" ELSE "host_a"
           IN  /\ hosts[host'[b]].enabled
               /\ hosts[wanted].enabled => host'[b] = wanted
               /\ host_rotation' = [last_host_id |-> host'[b], break_count |-> n]
               /\ (hosts["host_a"].enabled /\ hosts["host_b"].enabled)
                    => host'[b] # host_rotation.last_host_id]_vars

-----------------------------------------------------------------------------
(* Properties of the break scheduler *)

\* C28: whatever start() and stop() calls were made, at most one loop is
\* active (not ended and not cancelled); no build is fired while the
\* scheduler is stopped; and a stop() call leaves the builds already fired
\* running.
C28_OneLoopStopHalts ==
    /\ [](Cardinality({t \in 1..MaxStarts :
                         /\ loop[t].pc \in {"new", "interval", "sleep", "quiet"}
                         /\ ~loop[t].cancel}) <= 1)
    /\ [][/\ fired' > fired => _running
          /\ (_running' # _running \/ awaited' # awaited \/ _task' # _task)
               => running_jobs' = running_jobs]_vars

-----------------------------------------------------------------------------
(* Properties of the playout socket client *)

\* C30: at most one send_command is between writing its command and the end
\* of reading its response; a response that a caller gets holds only lines
\* sent in reply to its own command; a call that ends in a command error
\* leaves no connection, and a command written when there is no connection
\* goes to a connection opened for it.
C30_ExclusiveCommands ==
    /\ [](/\ Cardinality({c \in Clients : call[c].pc = "read"}) <= 1
          /\ \A c \in Clients :
               call[c].result = "response" =>
                 \A i \in 1..Len(call[c].lines) : call[c].lines[i].of = call[c].cmd)
    /\ [][\A c \in Clients :
            /\ (call[c].pc # "idle" /\ call'[c].result = "absent") => _writer' = 0
            /\ (call[c].pc = "locked" /\ call'[c].pc = "read" /\ _writer = 0)
                 => /\ conns' = conns + 1
                    /\ _writer' = conns'
                    /\ stream'.buf = <<>>]_vars

\* a caller reads the reply to its command on the second connection after
\* the other caller's command failed on the first
C30_Witness ==
    \E c, d \in Clients :
      /\ c # d
      /\ call[d].result = "absent"
      /\ call[d].cmd = 1
      /\ call[c].result = "response"
      /\ Len(call[c].lines) = 1
      /\ call[c].cmd = 2
      /\ stream.id = 2

\* C31: every send_command call that has taken the mutex ends, whatever the
\* playout socket does: unreachable, silent, or closed by the peer before a
\* line END.
C31_Terminates ==
    \A c \in Clients : (call[c].pc # "idle") ~> (call[c].pc = "idle")

-----------------------------------------------------------------------------
(* Properties of the functions without state *)

\* C32: when the host's provider is elevenlabs or openai and the key of that
\* provider is missing, synthesize gives what local Piper synthesis gives.
C32_FallbackToPiper ==
    (/\ ret.done
     /\ args.fn = "synthesize"
     /\ \/ args.host.tts_provider = "elevenlabs" /\ args.settings.elevenlabs_api_key = ""
        \/ args.host.tts_provider = "openai" /\ args.OPENAI_API_KEY = "")
    => ret.value.backend = "piper"

C34_DurationsAddUp ==
    (ret.done /\ args.fn = "generate_edl") =>
      LET RECURSIVE total(_)
          total(q) == IF q = << >> THEN 0 ELSE Head(q).duration_ms + total(Tail(q))
          RECURSIVE flat(_)
          flat(scenes) == IF scenes = << >> THEN << >>
                          ELSE Head(scenes) \o flat(Tail(scenes))
          edl == ret.value
      IN  /\ total(edl) = total(flat(args.script.scenes))
                            + total(SelectSeq(edl, LAMBDA g : g.speaker = ""))
          /\ \A n \in 1..Len(edl) :
               /\ (edl[n].speaker = "" /\ edl[n].shot_type = "wide")
                    => (2000 <= edl[n].duration_ms /\ edl[n].duration_ms <= 4000)
               /\ edl[n].listener # ""
                    => (1500 <= edl[n].duration_ms /\ edl[n].duration_ms <= 3000)

\* an EDL with a wide inserted between two lines and with a reaction
C34_Witness ==
    /\ ret.done
    /\ args.fn = "generate_edl"
    /\ \E n \in 2..Len(ret.value) :
         /\ ret.value[n].shot_type = "wide"
         /\ ret.value[n].speaker = ""
         /\ ret.value[n - 1].speaker # ""
         /\ ret.value[n].duration_ms = 4000
    /\ \E n \in 1..Len(ret.value) : ret.value[n].listener # ""

C36_ReactionOnlyAfterLong ==
    (ret.done /\ args.fn = "generate_edl") =>
      \A n \in 1..Len(ret.value) :
        ret.value[n].listener # "" =>
          /\ n > 1
          /\ ret.value[n - 1].speaker # ""
          /\ ret.value[n - 1].duration_ms > 3000
          /\ Len(args.script.characters) >= 2
          /\ ret.value[n].speaker = ""
          /\ ret.value[n].audio_path = ""
          /\ ret.value[n].shot_type \in {"closeup_left", "closeup_right"}
          /\ ret.value[n].characters = <<ret.value[n].listener>>
          /\ ret.value[n].listener # ret.value[n - 1].speaker
          /\ ret.value[n].transition = "cut"

\* C37: the mask that the smoothing step produces has no run of length 1,
\* except possibly the run at the first frame.
C37_NoShortRun ==
    (ret.done /\ args.fn = "_smooth") =>
      \A n \in 2..Len(ret.value) :
        ~(/\ ret.value[n] # ret.value[n - 1]
          /\ n = Len(ret.value) \/ ret.value[n + 1] # ret.value[n])

-----------------------------------------------------------------------------
(* prepare_break with the break id read from the clock *)

\* lines 30-47 with the id of line 32 as the code computes it: the second of
\* the wall clock and the first four digits of its microseconds.  tick is
\* that value; a task that starts within the same 100 microseconds as the
\* one before it reads the same tick.  Tasks are numbered in the order they
\* start.
AdmitClock(b) ==
    /\ pc[b] = "idle"
    /\ \A c \in Builds : c < b => pc[c] # "idle"
    /\ \E brk \in BOOLEAN :
         /\ is_breaking' = [is_breaking EXCEPT ![b] = brk]
         /\ break_id' = [break_id EXCEPT ![b] = tick]
         /\ tick' \in {tick, tick + 1}
         /\ IF get_preparing_break(break_queue) /\ ~brk
            THEN pc' = [pc EXCEPT ![b] = "skipped"]
            ELSE pc' = [pc EXCEPT ![b] = "host"]
    /\ UNCHANGED <<hosts, stingExists, templates, host_rotation, break_queue,
                   events_log, sent>>
    /\ UNCHANGED <<host, weather_data, script, deg_level, audio_path,
                   spoken, accepted>>
    /\ UNCHANGED side

\* lines 56-61 when the table may hold the id already.  The INSERT names no
\* conflict clause: where id is the key of the table it raises and the task
\* goes to its handler; where it is not, a second row with the id is stored,
\* and since every UPDATE of break_queue.py selects by id, the rows of one id
\* change together from then on: they are kept as the one row break_queue[id].
CreateClock(b) ==
    \/ Create(b)
    \/ /\ pc[b] = "create"
       /\ break_queue[break_id[b]] # NoRow
       /\ pc' = [pc EXCEPT ![b] = "exc"]
       /\ UNCHANGED shared
       /\ UNCHANGED locals
       /\ UNCHANGED side

NextClock ==
    \/ \E b \in Builds : AdmitClock(b)
    \/ \E b \in Builds : PickHost(b)
    \/ \E b \in Builds : CreateClock(b)
    \/ \E b \in Builds : Generate(b)
    \/ \E b \in Builds : Fallback(b)
    \/ \E b \in Builds : Filter(b)
    \/ \E b \in Builds : Synthesize(b)
    \/ \E b \in Builds : StingPush(b)
    \/ \E b \in Builds : Commit(b)
    \/ \E b \in Builds : Inject(b)
    \/ \E b \in Builds : Handler(b)

\* builds whose ids come from the clock, store operations raising only on
\* a second INSERT of an id
IdSpec == Init /\ [][NextClock]_vars

-----------------------------------------------------------------------------
(* Properties of prepare_break: the end of a build, break ids, scoring *)

\* C38: when a build has ended, by a return or by an exception that left
\* prepare_break, the queue entry it inserted is no longer PREPARING.
C38_EndedBuildLeftPreparing ==
    \A b \in Builds :
      (pc[b] \notin Running \cup {"idle"})
      => break_queue[break_id[b]].status # "PREPARING"

\* C39: two builds that have started hold different break ids, so that the
\* mark_ready, mark_played and mark_failed of a build reach only the row the
\* build inserted.
C39_DistinctBreakIds ==
    \A a, b \in Builds :
      (a # b /\ pc[a] # "idle" /\ pc[b] # "idle") => break_id[a] # break_id[b]

\* C40: after the scoring step of a build, a row of cache_news is marked
\* scored only if its headline was among those sent to the scorer, and it
\* holds the score of an item of the reply that names that headline.
C40_ScoredOnlyIfSent ==
    (args.fn = "score_unscored" /\ ret.done) =>
      \A n \in 1..args.rows :
        ret.value.cache[n].scored =>
          /\ n <= ret.value.sent
          /\ \E k \in 1..Len(args.reply) :
               /\ args.reply[k].index = n - 1
               /\ args.reply[k].score = ret.value.cache[n].score

====
